---- MODULE Spec2Model ----
(***************************************************************************)
(* Request-governance layer of urban-wheels: the dual-backend cache        *)
(* (src/lib/redis/cache.ts), the fixed-window rate limiter                 *)
(* (src/lib/redis/rate-limit.ts), the backend selector                     *)
(* (src/lib/redis/client.ts) and the rate-limiting middleware              *)
(* (src/middleware.ts).                                                    *)
(*                                                                         *)
(* Strings the code inspects (keys, paths, header values) are sequences of *)
(* one-character strings, so that concatenation, startsWith, includes,     *)
(* split and trim are computed as the code computes them.                  *)
(*                                                                         *)
(* Time is Date.now() in milliseconds.  The clock advances in steps of     *)
(* half a second (or half a middleware window), so that instants strictly  *)
(* inside a window, exactly on a window boundary and strictly after it all *)
(* occur.                                                                  *)
(*                                                                         *)
(* The durable store (Upstash Redis) is an external collaborator: each of  *)
(* its commands is one atomic step taken at the server, with exact TTL (a  *)
(* key with expiry e exists at time t iff t < e).  Awaited round trips are *)
(* suspension points: steps of other calls and clock ticks may interleave  *)
(* between two commands of the same call.                                  *)
(***************************************************************************)
EXTENDS Integers, Sequences, FiniteSets, TLC

VARIABLES
  env,          \* process configuration: USE_REDIS, URL, TOKEN (client.ts, @/lib/env)
  redis,        \* client.ts `let redis`: 0 = null, n > 0 = the n-th handle constructed
  handlesBuilt, \* number of `new Redis(...)` executed
  warnings,     \* number of console.warn calls made by getRedis
  now,          \* Date.now(), milliseconds
  redisDb,      \* durable store: key -> NoKey or [val, exp]
  memoryStore,  \* rate-limit.ts memoryStore: key -> NoEntry or [count, reset]
  memoryCache,  \* cache.ts memoryCache: key -> NoEntry or [data, expiry]
  policy,       \* RateLimitConfig used by direct callers of rateLimit
  runTtl,       \* CacheConfig.ttl used by the callers of the cache
  pc,           \* per logical thread: position inside the async function it runs
  rl,           \* per logical thread: locals of a suspended rateLimit call
  cs,           \* per logical thread: locals of a suspended cache call
  lastRl,       \* the RateLimitResult most recently returned (with its history)
  lastMw,       \* the middleware response most recently produced
  lastCache,    \* the cache call most recently completed
  gRl,          \* history: per rate-limit key, the calls made in the current window
  gMw,          \* history: per caller, the requests per endpoint class in the window
  gCache,       \* history: per cache key, the last write that stored it
  lastSel,      \* the getRedis() call most recently made: configuration, value returned
  gNs           \* history: per cache key, under which keyPrefix and backend it was
                \* written; the store before the latest namespace operation

vars == <<env, redis, handlesBuilt, warnings, now, redisDb, memoryStore,
          memoryCache, policy, runTtl, pc, rl, cs, lastRl, lastMw, lastCache,
          gRl, gMw, gCache, lastSel, gNs>>

-----------------------------------------------------------------------------
(* Bounds of the exploration *)

MaxTime == 2500      \* direct rateLimit and cache runs stop the clock here (ms)
MaxCalls == 3        \* rateLimit calls per key and window by direct callers
MaxWarn == 3         \* calls explored in a misconfigured process
Procs == {1, 2}      \* concurrent logical threads (requests in flight)
Limits == {1, 2}     \* RateLimitConfig.limit of direct callers
Windows == {1, 2}    \* RateLimitConfig.windowInSeconds of direct callers
MaxRequests == 2     \* requests under /api/ in the runs of SpecReq and SpecFail

-----------------------------------------------------------------------------
(* Program constants *)

MsPerSecond == 1000
HalfSecond == MsPerSecond \div 2

Max(a, b) == IF a >= b THEN a ELSE b
Min(a, b) == IF a <= b THEN a ELSE b

-----------------------------------------------------------------------------
(* Strings *)

Colon == <<":">>
RlPrefix == <<"r", "l">>
MwPrefix == <<"m", "w">>
Unknown == <<"u", "n", "k", "n", "o", "w", "n">>

\* the mutant of FullKey: the namespace is left out of the key
FullKeyBare(keyPrefix, key) == Colon \o key

\* `${keyPrefix}:${identifier}` and `${keyPrefix}:${key}`
FullKey(keyPrefix, key) == keyPrefix \o Colon \o key

\* the mutant of StartsWith: only the first character is compared
StartsWithFirst(s, prefix) ==
  /\ Len(prefix) <= Len(s)
  /\ SubSeq(s, 1, 1) = SubSeq(prefix, 1, 1)

\* String.prototype.startsWith
StartsWith(s, prefix) ==
  /\ Len(prefix) <= Len(s)
  /\ SubSeq(s, 1, Len(prefix)) = prefix

\* String.prototype.includes
Includes(s, needle) ==
  \E i \in 0..(Len(s) - Len(needle)) : SubSeq(s, i + 1, i + Len(needle)) = needle

\* index of the first occurrence of character c in s, 0 when absent
IndexOf(s, c) ==
  IF \E i \in 1..Len(s) : s[i] = c
  THEN CHOOSE i \in 1..Len(s) : s[i] = c /\ \A j \in 1..(i - 1) : s[j] # c
  ELSE 0

\* s.split(",")[0]
FirstField(s) ==
  IF IndexOf(s, ",") = 0 THEN s ELSE SubSeq(s, 1, IndexOf(s, ",") - 1)

RECURSIVE TrimLeft(_)
TrimLeft(s) == IF s # <<>> /\ Head(s) = " " THEN TrimLeft(Tail(s)) ELSE s

RECURSIVE TrimRight(_)
TrimRight(s) ==
  IF s # <<>> /\ s[Len(s)] = " " THEN TrimRight(SubSeq(s, 1, Len(s) - 1)) ELSE s

\* String.prototype.trim
Trim(s) == TrimRight(TrimLeft(s))

-----------------------------------------------------------------------------
(* Backend selector, client.ts *)

Envs == [USE_REDIS : BOOLEAN, URL : BOOLEAN, TOKEN : BOOLEAN]

\* isRedisEnabled(): the configuration selects the durable backend
isRedisEnabled == env.USE_REDIS /\ env.URL /\ env.TOKEN

\* getRedis() logs the misconfiguration warning on this call
GetRedisWarns == env.USE_REDIS /\ ~(env.URL /\ env.TOKEN)

\* the mutant of GetRedisValue: a handle, once built, is returned whatever the
\* configuration says
GetRedisValueSticky ==
  IF redis # 0 THEN redis
  ELSE IF ~env.USE_REDIS THEN 0
  ELSE IF ~env.URL \/ ~env.TOKEN THEN 0
  ELSE handlesBuilt + 1

\* the mutant of GetRedisValue: one credential is enough
GetRedisValueAnyCredential ==
  IF ~env.USE_REDIS THEN 0
  ELSE IF ~env.URL /\ ~env.TOKEN THEN 0
  ELSE IF redis = 0 THEN handlesBuilt + 1 ELSE redis

\* the mutant of GetRedisValue: a handle is constructed on every call
GetRedisValueFresh ==
  IF ~env.USE_REDIS THEN 0
  ELSE IF ~env.URL \/ ~env.TOKEN THEN 0
  ELSE handlesBuilt + 1

\* the value getRedis() returns: 0 (null) or the handle
GetRedisValue ==
  IF ~env.USE_REDIS THEN 0
  ELSE IF ~env.URL \/ ~env.TOKEN THEN 0
  ELSE IF redis = 0 THEN handlesBuilt + 1 ELSE redis

NoSel == [called |-> FALSE, ret |-> 0, enabled |-> FALSE,
          env |-> [USE_REDIS |-> FALSE, URL |-> FALSE, TOKEN |-> FALSE]]

\* the state change of one getRedis() call
getRedis ==
  /\ lastSel' = [called |-> TRUE, ret |-> GetRedisValue, enabled |-> isRedisEnabled,
                 env |-> env]
  /\ warnings' = IF GetRedisWarns THEN warnings + 1 ELSE warnings
  /\ warnings' <= MaxWarn
  /\ redis' = IF GetRedisValue # 0 THEN GetRedisValue ELSE redis
  /\ handlesBuilt' = IF GetRedisValue \notin {0, redis}
                     THEN handlesBuilt + 1 ELSE handlesBuilt

-----------------------------------------------------------------------------
(* Durable store *)

NoKey == [val |-> -1, exp |-> -1]
NoTtl == 0

\* a stored key is visible at time t while its expiry, if any, lies ahead
RedisLive(db, k, t) == db[k].exp # NoKey.exp /\ (db[k].exp = NoTtl \/ t < db[k].exp)

\* the server drops the keys whose expiry has been reached
RedisPurge(db, t) == [k \in DOMAIN db |-> IF RedisLive(db, k, t) THEN db[k] ELSE NoKey]

\* the mutant of RedisIncr: the increment reads a stale copy and loses an update
RedisIncrLost(db, k, t) ==
  IF RedisLive(db, k, t)
  THEN [db EXCEPT ![k] = [val |-> Max(1, db[k].val), exp |-> db[k].exp]]
  ELSE [db EXCEPT ![k] = [val |-> 1, exp |-> NoTtl]]

\* INCR key: atomic at the server, creates the key at 1 without expiry,
\* keeps the expiry of an existing key
RedisIncr(db, k, t) ==
  IF RedisLive(db, k, t)
  THEN [db EXCEPT ![k] = [val |-> db[k].val + 1, exp |-> db[k].exp]]
  ELSE [db EXCEPT ![k] = [val |-> 1, exp |-> NoTtl]]

\* EXPIRE key seconds: no effect on a missing key
RedisExpire(db, k, seconds, t) ==
  IF RedisLive(db, k, t)
  THEN [db EXCEPT ![k] = [val |-> db[k].val, exp |-> t + seconds * MsPerSecond]]
  ELSE db

-----------------------------------------------------------------------------
(* Keys and requests *)

\* identifiers passed to rateLimit by direct callers (rateLimit(userId, ...))
Idents == {<<"7">>}

\* defaultLimits, rate-limit.ts
defaultLimits ==
  [api |-> [limit |-> 100, windowInSeconds |-> 60],
   auth |-> [limit |-> 10, windowInSeconds |-> 60],
   reservation |-> [limit |-> 5, windowInSeconds |-> 60],
   search |-> [limit |-> 60, windowInSeconds |-> 60]]

\* headers.get(name) of a header the request does not carry (null); a header
\* the request carries with an empty value reads as the empty string <<>>
NoHeader == <<"null">>

\* the truthiness of a header value: null and "" are falsy
Truthy(h) == h # NoHeader /\ h # <<>>

\* the headers of a caller behind a proxy: "1.2.3.4, 5.6.7.8" is written with
\* one-digit addresses
ProxiedHeaders == [xff |-> <<"4", ",", " ", "8">>, realIp |-> <<"5">>, cf |-> NoHeader]

\* request headers
HeaderSets ==
  { ProxiedHeaders,
    [xff |-> NoHeader, realIp |-> NoHeader, cf |-> NoHeader],
    [xff |-> NoHeader, realIp |-> <<"5">>, cf |-> <<"9">>],
    [xff |-> NoHeader, realIp |-> NoHeader, cf |-> <<"9">>],
    [xff |-> <<" ", "4", " ">>, realIp |-> NoHeader, cf |-> <<"9">>],
    [xff |-> <<>>, realIp |-> <<"5">>, cf |-> NoHeader],
    [xff |-> NoHeader, realIp |-> <<>>, cf |-> <<"9">>] }

NoRequest == [headers |-> [xff |-> NoHeader, realIp |-> NoHeader, cf |-> NoHeader],
              path |-> <<>>]

PathHome == <<"/", "c", "a", "r", "s">>
PathApiCars == <<"/", "a", "p", "i", "/", "c", "a", "r", "s">>
PathAuthLogin ==
  <<"/", "a", "p", "i", "/", "a", "u", "t", "h", "/", "l", "o", "g", "i", "n">>
PathReservation ==
  <<"/", "a", "p", "i", "/", "c", "a", "r", "s",
    "/", "r", "e", "s", "e", "r", "v", "a", "t", "i", "o", "n">>
Paths == {PathHome, PathApiCars, PathAuthLogin, PathReservation}
PathAuthReservation ==
  <<"/", "a", "p", "i", "/", "a", "u", "t", "h",
    "/", "r", "e", "s", "e", "r", "v", "a", "t", "i", "o", "n">>

\* the mutant of getClientIp: X-Real-IP is preferred to X-Forwarded-For
getClientIpRealFirst(headers) ==
  IF Truthy(headers.realIp) THEN headers.realIp
  ELSE IF Truthy(headers.xff) THEN Trim(FirstField(headers.xff))
  ELSE IF Truthy(headers.cf) THEN headers.cf
  ELSE Unknown

\* getClientIp(headers), rate-limit.ts
getClientIp(headers) ==
  IF Truthy(headers.xff) THEN Trim(FirstField(headers.xff))
  ELSE IF Truthy(headers.realIp) THEN headers.realIp
  ELSE IF Truthy(headers.cf) THEN headers.cf
  ELSE Unknown

MwIps == {getClientIp(h) : h \in HeaderSets}

RlKeys == {FullKey(RlPrefix, i) : i \in Idents} \cup {FullKey(MwPrefix, i) : i \in MwIps}

-----------------------------------------------------------------------------
(* Rate limiter, rate-limit.ts *)

NoEntry == [count |-> 0, reset |-> 0]

\* Math.floor(now / windowInSeconds) * windowInSeconds for the instant t (ms)
WindowStart(t, windowInSeconds) ==
  ((t \div MsPerSecond) \div windowInSeconds) * windowInSeconds

\* the mutant of RateLimitResult: admits while count < limit
RateLimitResultStrict(count, limit, reset) ==
  [success |-> count < limit, remaining |-> Max(0, limit - count),
   reset |-> reset, limit |-> limit]

\* the object both increment paths return
RateLimitResult(count, limit, reset) ==
  [success |-> count <= limit, remaining |-> Max(0, limit - count),
   reset |-> reset, limit |-> limit]

\* cleanupMemoryStore()
cleanupMemoryStore(store, t) ==
  [k \in DOMAIN store |->
     IF store[k] # NoEntry /\ store[k].reset < t THEN NoEntry ELSE store[k]]

\* History of one key: the fixed window of its latest call, the calls made in
\* it, whether the key had no counter when the window's first call arrived,
\* the calls admitted, the counts observed, whether a window with calls came
\* before, and the reset of a denial not yet followed by another call.
NoHist == [win |-> -1, calls |-> 0, fresh |-> FALSE, adm |-> 0, obs |-> <<>>,
           denyReset |-> -1]

HistCall(g, w, wasFresh, count) ==
  IF g.win = w
  THEN [g EXCEPT !.calls = @ + 1, !.obs = Append(@, count), !.denyReset = -1]
  ELSE [g EXCEPT !.win = w, !.calls = 1, !.fresh = wasFresh, !.adm = 0,
                 !.obs = <<count>>, !.denyReset = -1]

HistReturn(g, w, result) ==
  [g EXCEPT !.adm = IF g.win = w /\ result.success THEN @ + 1 ELSE @,
            !.denyReset = IF ~result.success /\ result.reset * MsPerSecond > now
                          THEN result.reset ELSE -1]

\* who awaits the call: a direct caller, or the middleware with the endpoint
\* class of its request and the number of requests of that class so far
NoCaller == [cls |-> "none", index |-> 0, request |-> NoRequest]
Direct == [cls |-> "direct", index |-> 0, request |-> NoRequest]

RlIdle == [key |-> <<>>, limit |-> 0, window |-> 0, reset |-> 0, count |-> 0,
           win |-> -1, k |-> 0, fresh |-> FALSE, later |-> FALSE,
           afterReset |-> FALSE, caller |-> NoCaller]

NoResult == [key |-> <<>>, success |-> FALSE, remaining |-> 0, reset |-> 0,
             limit |-> 0, count |-> 0, win |-> -1, k |-> 0, fresh |-> FALSE,
             later |-> FALSE, afterReset |-> FALSE, caller |-> NoCaller,
             threw |-> FALSE]

Returned(r, result) ==
  [key |-> r.key, success |-> result.success, remaining |-> result.remaining,
   reset |-> result.reset, limit |-> result.limit, count |-> r.count,
   win |-> r.win, k |-> r.k, fresh |-> r.fresh, later |-> r.later,
   afterReset |-> r.afterReset, caller |-> r.caller, threw |-> FALSE]

\* the key's earlier calls were made in a window whose end has passed
Later(g, windowInSeconds) ==
  g.win # -1 /\ (g.win + windowInSeconds) * MsPerSecond < now

\* calls for a key counted in the fixed window of the present instant
CallsInWindow(key, windowInSeconds) ==
  (IF gRl[key].win = WindowStart(now, windowInSeconds) THEN gRl[key].calls ELSE 0)
  + Cardinality({q \in Procs : pc[q] = "rl_incr" /\ rl[q].key = key})

\* a denial was returned with a reset R that lay ahead, no call reached the
\* counter since, and R has passed
AfterReset(key) ==
  /\ gRl[key].denyReset >= 0
  /\ now > gRl[key].denyReset * MsPerSecond

\* rateLimit(identifier, config), up to its first suspension:
\* the in-memory path runs to its return, the durable path sends the pipeline
rateLimit(p, identifier, config, caller) ==
  LET limit == config.limit
      windowInSeconds == config.windowInSeconds
      key == FullKey(config.keyPrefix, identifier)
      nowS == now \div MsPerSecond
      windowStart == (nowS \div windowInSeconds) * windowInSeconds
      reset == windowStart + windowInSeconds
      cleaned == cleanupMemoryStore(memoryStore, now)
      existing == cleaned[key]
      isNew == existing = NoEntry \/ existing.reset < now
      wasFresh == memoryStore[key] = NoEntry \/ memoryStore[key].reset < now
      count == IF isNew THEN 1 ELSE existing.count + 1
      result == IF isNew
                THEN [success |-> TRUE, remaining |-> limit - 1,
                      reset |-> reset, limit |-> limit]
                ELSE RateLimitResult(count, limit, existing.reset \div MsPerSecond)
      g == gRl[key]
      r == [key |-> key, limit |-> limit, window |-> windowInSeconds,
            reset |-> reset, count |-> count, win |-> windowStart,
            k |-> IF g.win = windowStart THEN g.calls + 1 ELSE 1,
            fresh |-> IF g.win = windowStart THEN g.fresh ELSE wasFresh,
            later |-> Later(g, windowInSeconds),
            afterReset |-> AfterReset(key), caller |-> caller]
  IN /\ pc[p] = "idle"
     /\ getRedis
     /\ IF GetRedisValue # 0
        THEN /\ pc' = [pc EXCEPT ![p] = "rl_incr"]
             /\ rl' = [rl EXCEPT ![p] =
                         [RlIdle EXCEPT !.key = key, !.limit = limit,
                                        !.window = windowInSeconds,
                                        !.reset = reset,
                                        !.afterReset = AfterReset(key),
                                        !.caller = caller]]
             /\ UNCHANGED <<memoryStore, lastRl, gRl>>
        ELSE /\ memoryStore' =
                  [cleaned EXCEPT ![key] =
                     IF isNew THEN [count |-> 1, reset |-> reset * MsPerSecond]
                     ELSE [count |-> count, reset |-> existing.reset]]
             /\ lastRl' = Returned(r, result)
             /\ gRl' = [gRl EXCEPT ![key] =
                          HistReturn(HistCall(g, windowStart, wasFresh, count),
                                     windowStart, result)]
             /\ UNCHANGED <<pc, rl>>
     /\ UNCHANGED redisDb

\* the server executes the pipeline's INCR
RlPipelineIncr(p) ==
  LET r == rl[p]
      w == WindowStart(now, r.window)
      g == gRl[r.key]
      db == RedisIncr(redisDb, r.key, now)
      count == db[r.key].val
  IN /\ pc[p] = "rl_incr"
     /\ redisDb' = db
     /\ rl' = [rl EXCEPT ![p] =
                 [r EXCEPT !.count = count, !.win = w,
                           !.k = IF g.win = w THEN g.calls + 1 ELSE 1,
                           !.fresh = IF g.win = w THEN g.fresh
                                     ELSE ~RedisLive(redisDb, r.key, now),
                           !.later = Later(g, r.window),
                           !.afterReset = r.afterReset /\ g.denyReset >= 0]]
     /\ gRl' = [gRl EXCEPT ![r.key] =
                  HistCall(g, w, ~RedisLive(redisDb, r.key, now), count)]
     /\ pc' = [pc EXCEPT ![p] = "rl_expire"]

\* the server executes the pipeline's EXPIRE, the reply arrives and rateLimit
\* returns
RlPipelineExpire(p) ==
  LET r == rl[p]
      result == RateLimitResult(r.count, r.limit, r.reset)
  IN /\ pc[p] = "rl_expire"
     /\ redisDb' = RedisExpire(redisDb, r.key, r.window, now)
     /\ lastRl' = Returned(r, result)
     /\ gRl' = [gRl EXCEPT ![r.key] = HistReturn(@, r.win, result)]
     /\ pc' = [pc EXCEPT ![p] = "idle"]
     /\ rl' = [rl EXCEPT ![p] = RlIdle]

\* the mutant of RlPipelineFails: the call falls back to the in-memory counter
RlPipelineFallsBack(p) ==
  LET r == rl[p]
      count == memoryStore[r.key].count + 1
  IN /\ pc[p] \in {"rl_incr", "rl_expire"}
     /\ memoryStore' = [memoryStore EXCEPT ![r.key] =
                          [count |-> count, reset |-> r.reset * MsPerSecond]]
     /\ lastRl' = Returned([r EXCEPT !.count = count],
                           RateLimitResult(count, r.limit, r.reset))
     /\ pc' = [pc EXCEPT ![p] = "idle"]
     /\ rl' = [rl EXCEPT ![p] = RlIdle]
     /\ UNCHANGED <<redisDb, gRl>>

\* `await pipeline.exec()` rejects (the request is lost, or the reply is lost
\* after the server ran INCR and perhaps EXPIRE): rateLimit ends with that
\* error
RlPipelineFails(p) ==
  LET r == rl[p]
  IN /\ pc[p] \in {"rl_incr", "rl_expire"}
     /\ \E applied \in BOOLEAN :
          redisDb' = IF applied /\ pc[p] = "rl_expire"
                     THEN RedisExpire(redisDb, r.key, r.window, now)
                     ELSE redisDb
     /\ lastRl' = [NoResult EXCEPT !.key = r.key, !.caller = r.caller,
                                   !.threw = TRUE]
     /\ pc' = [pc EXCEPT ![p] = "idle"]
     /\ rl' = [rl EXCEPT ![p] = RlIdle]
     /\ UNCHANGED <<memoryStore, gRl>>

-----------------------------------------------------------------------------
(* Middleware, middleware.ts *)

ApiPrefix == <<"/", "a", "p", "i", "/">>
ApiAuth == <<"/", "a", "p", "i", "/", "a", "u", "t", "h">>
SlashReservation == <<"/", "r", "e", "s", "e", "r", "v", "a", "t", "i", "o", "n">>
TooManyRequests == "Too many requests. Please try again later."

\* the mutant of Classify: /reservation is looked for first
ClassifyReservationFirst(pathname) ==
  IF Includes(pathname, SlashReservation) THEN "reservation"
  ELSE IF Includes(pathname, ApiAuth) THEN "auth"
  ELSE "api"

\* the endpoint class whose defaultLimits entry the middleware picks
Classify(pathname) ==
  IF Includes(pathname, ApiAuth) THEN "auth"
  ELSE IF Includes(pathname, SlashReservation) THEN "reservation"
  ELSE "api"

LimitConfig(pathname) ==
  [limit |-> defaultLimits[Classify(pathname)].limit,
   windowInSeconds |-> defaultLimits[Classify(pathname)].windowInSeconds,
   keyPrefix |-> MwPrefix]

\* String(n) for n >= 0
RECURSIVE String(_)
String(n) ==
  LET digit == <<"0", "1", "2", "3", "4", "5", "6", "7", "8", "9">>
  IN IF n < 10 THEN <<digit[n + 1]>>
     ELSE String(n \div 10) \o <<digit[(n % 10) + 1]>>

NoResponse == [kind |-> "none", status |-> 0, error |-> "", limit |-> NoHeader,
               remaining |-> NoHeader, resetHeader |-> NoHeader,
               ip |-> <<>>, cls |-> "none", clsIndex |-> 0, fresh |-> FALSE,
               request |-> NoRequest]

\* NextResponse.next() of a path outside /api/
PassThrough == [NoResponse EXCEPT !.kind = "next", !.status = 200]

\* the mutant of Response: the denial carries no quota headers
ResponseBare(r) ==
  [kind |-> IF r.success THEN "next" ELSE "json",
   status |-> IF r.success THEN 200 ELSE 429,
   error |-> IF r.success THEN "" ELSE TooManyRequests,
   limit |-> IF r.success THEN String(r.limit) ELSE NoHeader,
   remaining |-> IF r.success THEN String(r.remaining) ELSE NoHeader,
   resetHeader |-> IF r.success THEN String(r.reset) ELSE NoHeader,
   ip |-> SubSeq(r.key, Len(MwPrefix) + 2, Len(r.key)),
   cls |-> r.caller.cls, clsIndex |-> r.caller.index, fresh |-> r.fresh,
   request |-> r.caller.request]

\* the response built from the RateLimitResult r (a lastRl record)
Response(r) ==
  [kind |-> IF r.success THEN "next" ELSE "json",
   status |-> IF r.success THEN 200 ELSE 429,
   error |-> IF r.success THEN "" ELSE TooManyRequests,
   limit |-> String(r.limit),
   remaining |-> String(r.remaining),
   resetHeader |-> String(r.reset),
   ip |-> SubSeq(r.key, Len(MwPrefix) + 2, Len(r.key)),
   cls |-> r.caller.cls, clsIndex |-> r.caller.index, fresh |-> r.fresh,
   request |-> r.caller.request]

NoClasses == [win |-> -1, api |-> 0, auth |-> 0, reservation |-> 0]

\* requests of each endpoint class a caller made in the window of instant t
ClassesAt(g, t, cls) ==
  LET w == WindowStart(t, defaultLimits[cls].windowInSeconds)
      h == IF g.win = w THEN g ELSE [NoClasses EXCEPT !.win = w]
  IN [h EXCEPT ![cls] = @ + 1]

\* middleware(request), up to the first suspension of its rateLimit call
middleware(p, request) ==
  LET pathname == request.path
      ip == getClientIp(request.headers)
      cls == Classify(pathname)
      key == FullKey(MwPrefix, ip)
      g == ClassesAt(gMw[ip], now, cls)
  IN IF ~StartsWith(pathname, ApiPrefix)
     THEN /\ pc[p] = "idle"
          /\ lastMw' = [PassThrough EXCEPT !.request = request]
          /\ UNCHANGED <<redis, handlesBuilt, warnings, lastSel, redisDb,
                         memoryStore, pc, rl, cs, lastRl, gRl, gMw>>
     ELSE /\ CallsInWindow(key, defaultLimits[cls].windowInSeconds)
               <= defaultLimits.reservation.limit
          /\ rateLimit(p, ip, LimitConfig(pathname),
                       [cls |-> cls, index |-> g[cls], request |-> request])
          /\ gMw' = [gMw EXCEPT ![ip] = g]
          /\ lastMw' = IF GetRedisValue # 0 THEN lastMw ELSE Response(lastRl')
          /\ UNCHANGED cs

\* the rateLimit call of a suspended middleware returns
MwResume(p) ==
  /\ rl[p].caller.cls \notin {"none", "direct"}
  /\ RlPipelineExpire(p)
  /\ lastMw' = Response(lastRl')
  /\ UNCHANGED cs

\* the error of rateLimit leaves the middleware: no response is built
Thrown(r) ==
  [NoResponse EXCEPT !.kind = "throw",
                     !.ip = SubSeq(r.key, Len(MwPrefix) + 2, Len(r.key)),
                     !.cls = r.caller.cls, !.clsIndex = r.caller.index,
                     !.request = r.caller.request]

\* the rateLimit call of a suspended middleware throws
MwThrows(p) ==
  /\ rl[p].caller.cls \notin {"none", "direct"}
  /\ RlPipelineFails(p)
  /\ lastMw' = Thrown(lastRl')
  /\ UNCHANGED cs

\* a direct caller's durable rateLimit returns
RlResume(p) ==
  /\ rl[p].caller.cls = "direct"
  /\ RlPipelineExpire(p)
  /\ UNCHANGED <<lastMw, cs>>

-----------------------------------------------------------------------------
(* Cache, cache.ts *)

DefaultPrefix == <<"c", "a", "c", "h", "e">>
CachePrefixes == {DefaultPrefix, <<"a">>}
LogicalKeys == {<<"1">>}

\* the namespaces and logical keys of the callers that remove by pattern and
\* by namespace: one keyPrefix extends the other, one key holds a "?", one
\* key ("a") is the beginning of others, one pattern ("a") has no wildcard
NsPrefixes == {DefaultPrefix, DefaultPrefix \o Colon \o <<"a">>}
NsLogicalKeys == {<<"1">>, <<"a", ":", "1">>, <<"a", ":", "2">>, <<"b", ":", "1">>,
                  <<"a", "?", "1">>, <<"a">>}
NsPatterns == {<<"a", ":", "*">>, <<"a", "?", "*">>, <<"a">>}

CacheKeys ==
  {FullKey(pre, k) : pre \in CachePrefixes, k \in LogicalKeys}
    \cup {FullKey(pre, k) : pre \in NsPrefixes, k \in NsLogicalKeys}

\* the namespaces the callers of the timing and getOrSet runs use
UsedPrefixes == {DefaultPrefix}

\* cached values: strings that the text encoding represents
Data == {<<"v", "1">>, <<"v", "2">>}
Ttls == {1, 2}

\* ttlPresets, cache.ts
ttlPresets == [short |-> 60, medium |-> 300, long |-> 3600, day |-> 86400]

\* null, as returned by get; no cached value is the empty string
Null == <<>>

Quote == "\""

\* JSON.stringify of a string value
JSONstringify(v) == <<Quote>> \o v \o <<Quote>>

\* JSON.parse of a stored text: the value, or ok = FALSE where it throws
JSONparse(text) ==
  IF /\ Len(text) >= 2
     /\ text[1] = Quote
     /\ text[Len(text)] = Quote
     /\ \A i \in 2..(Len(text) - 1) : text[i] # Quote
  THEN [ok |-> TRUE, value |-> SubSeq(text, 2, Len(text) - 1)]
  ELSE [ok |-> FALSE, value |-> Null]

\* payloads of the shared store that no JSON.stringify of this program wrote
Malformed == {<<Quote, "v">>}

NoCached == [data |-> Null, expiry |-> -1]

\* cleanupMemoryCache()
cleanupMemoryCache(cache, t) ==
  [k \in DOMAIN cache |->
     IF cache[k] # NoCached /\ cache[k].expiry < t THEN NoCached ELSE cache[k]]

\* the mutant of MemoryEntry: the TTL is added to the clock as milliseconds
MemoryEntrySeconds(data, ttl, t) == [data |-> data, expiry |-> t + ttl]

\* { data, expiry: Date.now() + ttl * 1000 } of set and getOrSet
MemoryEntry(data, ttl, t) == [data |-> data, expiry |-> t + ttl * MsPerSecond]

\* GET key at the server: the stored text, or Null
RedisGet(db, k, t) == IF RedisLive(db, k, t) THEN db[k].val ELSE Null

\* the mutant of RedisSetex: a live key is not overwritten (first writer wins)
RedisSetexKeep(db, k, seconds, text, t) ==
  IF RedisLive(db, k, t) THEN db
  ELSE [db EXCEPT ![k] = [val |-> text, exp |-> t + seconds * MsPerSecond]]

\* SETEX key seconds value
RedisSetex(db, k, seconds, text, t) ==
  [db EXCEPT ![k] = [val |-> text, exp |-> t + seconds * MsPerSecond]]

\* the mutant of RedisDel: the server drops every key
RedisDelFlush(db, k) == [x \in DOMAIN db |-> NoKey]

\* DEL key
RedisDel(db, k) == [db EXCEPT ![k] = NoKey]

\* glob matching of KEYS: "*" matches any run of characters, "?" any one
\* character, every other character itself
RECURSIVE GlobMatch(_, _)
GlobMatch(pattern, s) ==
  IF pattern = <<>> THEN s = <<>>
  ELSE IF Head(pattern) = "*"
       THEN GlobMatch(Tail(pattern), s) \/ (s # <<>> /\ GlobMatch(pattern, Tail(s)))
       ELSE /\ s # <<>>
            /\ Head(pattern) = "?" \/ Head(pattern) = Head(s)
            /\ GlobMatch(Tail(pattern), Tail(s))

\* the mutant of RedisKeys: only a trailing "*" is a wildcard
RedisKeysLiteral(db, pattern, t) ==
  {k \in DOMAIN db :
     /\ RedisLive(db, k, t)
     /\ IF pattern # <<>> /\ pattern[Len(pattern)] = "*"
        THEN StartsWith(k, SubSeq(pattern, 1, Len(pattern) - 1))
        ELSE k = pattern}

\* KEYS pattern
RedisKeys(db, pattern, t) ==
  {k \in DOMAIN db : RedisLive(db, k, t) /\ GlobMatch(pattern, k)}

\* DEL key1 key2 ...
RedisDelKeys(db, keys) == [k \in DOMAIN db |-> IF k \in keys THEN NoKey ELSE db[k]]

\* fullPattern.replace("*", ""): the first "*" is removed
ReplaceStar(s) ==
  IF IndexOf(s, "*") = 0 THEN s
  ELSE SubSeq(s, 1, IndexOf(s, "*") - 1) \o SubSeq(s, IndexOf(s, "*") + 1, Len(s))

\* the mutant of MemoryLookup: an entry is served at the instant it expires
MemoryLookupLate(cache, fullKey, t) ==
  IF cache[fullKey] # NoCached /\ cache[fullKey].expiry >= t
  THEN [hit |-> TRUE, value |-> cache[fullKey].data]
  ELSE [hit |-> FALSE, value |-> Null]

\* `cached && cached.expiry > Date.now()` of get and getOrSet
MemoryLookup(cache, fullKey, t) ==
  IF cache[fullKey] # NoCached /\ cache[fullKey].expiry > t
  THEN [hit |-> TRUE, value |-> cache[fullKey].data]
  ELSE [hit |-> FALSE, value |-> Null]

\* the mutant of DurableGet: JSON.parse is not guarded by try/catch
DurableGetUnguarded(cached) ==
  IF cached = Null THEN [value |-> Null, err |-> FALSE]
  ELSE IF JSONparse(cached).ok THEN [value |-> JSONparse(cached).value, err |-> FALSE]
  ELSE [value |-> Null, err |-> TRUE]

\* the durable path of get, applied to the reply of redis.get
DurableGet(cached) ==
  IF cached = Null THEN [value |-> Null, err |-> FALSE]
  ELSE IF JSONparse(cached).ok THEN [value |-> JSONparse(cached).value, err |-> FALSE]
  ELSE [value |-> Null, err |-> FALSE]

\* the mutant of DurableLookup: a payload that does not decode is served as is
DurableLookupRaw(cached) ==
  IF cached # Null
  THEN [hit |-> TRUE, value |-> cached, err |-> FALSE]
  ELSE [hit |-> FALSE, value |-> Null, err |-> FALSE]

\* the durable lookup of getOrSet: a hit only when the payload decodes
DurableLookup(cached) ==
  IF cached # Null /\ JSONparse(cached).ok
  THEN [hit |-> TRUE, value |-> JSONparse(cached).value, err |-> FALSE]
  ELSE [hit |-> FALSE, value |-> Null, err |-> FALSE]

\* what get(key, keyPrefix) returns in the present state
GetValue(fullKey) ==
  IF isRedisEnabled
  THEN DurableGet(RedisGet(redisDb, fullKey, now)).value
  ELSE MemoryLookup(memoryCache, fullKey, now).value

\* an entry of the selected backend that has not expired
LiveEntry(fullKey) ==
  IF isRedisEnabled
  THEN RedisLive(redisDb, fullKey, now)
  ELSE memoryCache[fullKey] # NoCached /\ now < memoryCache[fullKey].expiry

\* History of one cache key: the write that stored its present entry (who,
\* what, expiring when), erased by a removal; and the value stored by the
\* latest getOrSet, kept until a removal.
NoWrite == [by |-> "none", val |-> Null, exp |-> -1, gosVal |-> Null, gosExp |-> -1,
            stale |-> FALSE]

Written(g, by, val, exp) ==
  [by |-> by, val |-> val, exp |-> exp,
   gosVal |-> IF by = "getOrSet" THEN val ELSE g.gosVal,
   gosExp |-> IF by = "getOrSet" THEN exp ELSE g.gosExp,
   stale |-> FALSE]

\* the frame of a suspended cache call; `invalidated` tells that a del of its
\* key completed after the call observed its miss
CsIdle == [key |-> <<>>, ttl |-> 0, data |-> Null, calls |-> 0, miss |-> FALSE,
           malformed |-> FALSE, owed |-> FALSE, owedOrig |-> FALSE,
           durable |-> FALSE, keys |-> {}, invalidated |-> FALSE]

NoCall == [op |-> "none", key |-> <<>>, ttl |-> 0, ret |-> Null, err |-> FALSE,
           calls |-> 0, stored |-> FALSE, miss |-> FALSE, malformed |-> FALSE,
           owed |-> FALSE, prior |-> Null, owedOrig |-> FALSE, orig |-> Null]

\* the value a getOrSet is owed by the latest write, when a getOrSet made it
Prior(fullKey) ==
  IF gCache[fullKey].by = "getOrSet" /\ now < gCache[fullKey].exp
  THEN gCache[fullKey].val ELSE Null

\* the value a getOrSet is owed by the latest getOrSet not followed by a removal
Orig(fullKey) ==
  IF gCache[fullKey].gosExp # -1 /\ now < gCache[fullKey].gosExp
  THEN gCache[fullKey].gosVal ELSE Null

\* the live entry of the durable store does not decode
MalformedEntry(fullKey) ==
  /\ RedisLive(redisDb, fullKey, now)
  /\ ~JSONparse(redisDb[fullKey].val).ok

\* get(key, keyPrefix)
get(p, key, keyPrefix) ==
  LET fullKey == FullKey(keyPrefix, key)
      d == DurableGet(RedisGet(redisDb, fullKey, now))
      m == MemoryLookup(memoryCache, fullKey, now)
  IN /\ pc[p] = "idle"
     /\ getRedis
     /\ lastCache' =
          [NoCall EXCEPT !.op = "get", !.key = fullKey,
                         !.ret = IF GetRedisValue # 0 THEN d.value ELSE m.value,
                         !.err = IF GetRedisValue # 0 THEN d.err ELSE FALSE,
                         !.miss = ~LiveEntry(fullKey),
                         !.malformed = GetRedisValue # 0 /\ MalformedEntry(fullKey)]
     /\ UNCHANGED <<redisDb, memoryCache, pc, cs, gCache>>

\* set(key, value, config)
set(p, key, value, ttl, keyPrefix) ==
  LET fullKey == FullKey(keyPrefix, key)
  IN /\ pc[p] = "idle"
     /\ getRedis
     /\ IF GetRedisValue # 0
        THEN /\ redisDb' = RedisSetex(redisDb, fullKey, ttl, JSONstringify(value), now)
             /\ UNCHANGED memoryCache
        ELSE /\ memoryCache' = [memoryCache EXCEPT ![fullKey] =
                                  MemoryEntry(value, ttl, now)]
             /\ UNCHANGED redisDb
     /\ gCache' = [gCache EXCEPT ![fullKey] =
                     Written(@, "set", value, now + ttl * MsPerSecond)]
     /\ lastCache' = [NoCall EXCEPT !.op = "set"]
     /\ UNCHANGED <<pc, cs>>

\* del(key, keyPrefix)
del(p, key, keyPrefix) ==
  LET fullKey == FullKey(keyPrefix, key)
  IN /\ pc[p] = "idle"
     /\ getRedis
     /\ IF GetRedisValue # 0
        THEN /\ redisDb' = RedisDel(redisDb, fullKey)
             /\ UNCHANGED memoryCache
        ELSE /\ memoryCache' = [memoryCache EXCEPT ![fullKey] = NoCached]
             /\ UNCHANGED redisDb
     /\ gCache' = [gCache EXCEPT ![fullKey] = NoWrite]
     /\ lastCache' = [NoCall EXCEPT !.op = "del"]
     /\ cs' = [q \in Procs |->
                IF pc[q] \in {"gos_fetch", "gos_setex"} /\ cs[q].key = fullKey
                THEN [cs[q] EXCEPT !.invalidated = TRUE] ELSE cs[q]]
     /\ UNCHANGED pc

\* getOrSet(key, fetcher, config) up to its `await fetcher()`, or to its
\* return on a hit
getOrSet(p, key, ttl, keyPrefix) ==
  LET fullKey == FullKey(keyPrefix, key)
      d == DurableLookup(RedisGet(redisDb, fullKey, now))
      cleaned == cleanupMemoryCache(memoryCache, now)
      m == MemoryLookup(cleaned, fullKey, now)
      durable == GetRedisValue # 0
      hit == IF durable THEN d.hit ELSE m.hit
      frame == [CsIdle EXCEPT !.key = fullKey, !.ttl = ttl, !.durable = durable,
                              !.miss = ~LiveEntry(fullKey),
                              !.malformed = durable /\ MalformedEntry(fullKey),
                              !.owed = Prior(fullKey) # Null,
                              !.owedOrig = Orig(fullKey) # Null]
  IN /\ pc[p] = "idle"
     /\ getRedis
     /\ memoryCache' = IF durable THEN memoryCache ELSE cleaned
     /\ IF hit
        THEN /\ lastCache' =
                  [NoCall EXCEPT !.op = "getOrSet", !.key = fullKey, !.ttl = ttl,
                                 !.ret = IF durable THEN d.value ELSE m.value,
                                 !.err = IF durable THEN d.err ELSE FALSE,
                                 !.miss = frame.miss, !.malformed = frame.malformed,
                                 !.owed = frame.owed, !.prior = Prior(fullKey),
                                 !.owedOrig = frame.owedOrig,
                                 !.orig = Orig(fullKey)]
             /\ UNCHANGED <<pc, cs>>
        ELSE /\ pc' = [pc EXCEPT ![p] = "gos_fetch"]
             /\ cs' = [cs EXCEPT ![p] = [frame EXCEPT !.calls = 1]]
             /\ UNCHANGED lastCache
     /\ UNCHANGED <<redisDb, gCache>>

\* the fetcher of a suspended getOrSet resolves with data; the in-memory
\* path stores it and returns, the durable path sends SETEX
GosFetched(p, data) ==
  LET c == cs[p]
  IN /\ pc[p] = "gos_fetch"
     /\ IF c.durable
        THEN /\ pc' = [pc EXCEPT ![p] = "gos_setex"]
             /\ cs' = [cs EXCEPT ![p].data = data]
             /\ UNCHANGED <<memoryCache, gCache, lastCache>>
        ELSE /\ memoryCache' = [memoryCache EXCEPT ![c.key] =
                                  MemoryEntry(data, c.ttl, now)]
             /\ gCache' = [gCache EXCEPT ![c.key] =
                             [Written(@, "getOrSet", data, now + c.ttl * MsPerSecond)
                                EXCEPT !.stale = c.invalidated]]
             /\ lastCache' =
                  [NoCall EXCEPT !.op = "getOrSet", !.key = c.key, !.ttl = c.ttl,
                                 !.ret = data, !.calls = c.calls, !.stored = TRUE,
                                 !.miss = c.miss, !.malformed = c.malformed,
                                 !.owed = c.owed, !.owedOrig = c.owedOrig]
             /\ pc' = [pc EXCEPT ![p] = "idle"]
             /\ cs' = [cs EXCEPT ![p] = CsIdle]
     /\ UNCHANGED redisDb

\* the server executes the SETEX of a suspended getOrSet, which returns
GosSetex(p) ==
  LET c == cs[p]
  IN /\ pc[p] = "gos_setex"
     /\ redisDb' = RedisSetex(redisDb, c.key, c.ttl, JSONstringify(c.data), now)
     /\ gCache' = [gCache EXCEPT ![c.key] =
                     [Written(@, "getOrSet", c.data, now + c.ttl * MsPerSecond)
                        EXCEPT !.stale = c.invalidated]]
     /\ lastCache' =
          [NoCall EXCEPT !.op = "getOrSet", !.key = c.key, !.ttl = c.ttl,
                         !.ret = c.data, !.calls = c.calls, !.stored = TRUE,
                         !.miss = c.miss, !.malformed = c.malformed,
                         !.owed = c.owed, !.owedOrig = c.owedOrig]
     /\ pc' = [pc EXCEPT ![p] = "idle"]
     /\ cs' = [cs EXCEPT ![p] = CsIdle]
     /\ UNCHANGED memoryCache

\* the mutant of GosFailed: the rejection is answered by caching a default
GosFailedCached(p) ==
  LET c == cs[p]
  IN /\ pc[p] = "gos_fetch"
     /\ IF c.durable
        THEN /\ redisDb' = RedisSetex(redisDb, c.key, c.ttl, JSONstringify(<<"v", "1">>), now)
             /\ UNCHANGED memoryCache
        ELSE /\ memoryCache' = [memoryCache EXCEPT ![c.key] =
                                  MemoryEntry(<<"v", "1">>, c.ttl, now)]
             /\ UNCHANGED redisDb
     /\ lastCache' = [NoCall EXCEPT !.op = "getOrSet", !.key = c.key, !.ttl = c.ttl,
                                    !.err = TRUE, !.calls = c.calls]
     /\ pc' = [pc EXCEPT ![p] = "idle"]
     /\ cs' = [cs EXCEPT ![p] = CsIdle]
     /\ UNCHANGED gCache

\* the fetcher of a suspended getOrSet rejects: `await fetcher()` throws and
\* getOrSet ends with that error, neither setex nor memoryCache.set is reached
GosFailed(p) ==
  LET c == cs[p]
  IN /\ pc[p] = "gos_fetch"
     /\ lastCache' = [NoCall EXCEPT !.op = "getOrSet", !.key = c.key, !.ttl = c.ttl,
                                    !.err = TRUE, !.calls = c.calls]
     /\ pc' = [pc EXCEPT ![p] = "idle"]
     /\ cs' = [cs EXCEPT ![p] = CsIdle]
     /\ UNCHANGED <<redisDb, memoryCache, gCache>>

\* a durable command of get, set, del or getOrSet rejects (GET; SETEX or DEL,
\* which the server may have executed before the reply was lost; the GET of
\* getOrSet): the call ends with that error
CommandFails(p, op, key, value, ttl, keyPrefix) ==
  LET fullKey == FullKey(keyPrefix, key)
  IN /\ pc[p] = "idle"
     /\ op \in {"get", "set", "del", "getOrSet"}
     /\ getRedis
     /\ GetRedisValue # 0
     /\ \E applied \in BOOLEAN :
          /\ redisDb' =
               IF applied /\ op = "set"
               THEN RedisSetex(redisDb, fullKey, ttl, JSONstringify(value), now)
               ELSE IF applied /\ op = "del" THEN RedisDel(redisDb, fullKey)
               ELSE redisDb
          /\ gCache' =
               IF applied /\ op = "set"
               THEN [gCache EXCEPT ![fullKey] =
                       Written(@, "set", value, now + ttl * MsPerSecond)]
               ELSE IF applied /\ op = "del" THEN [gCache EXCEPT ![fullKey] = NoWrite]
               ELSE gCache
     /\ lastCache' = [NoCall EXCEPT !.op = op, !.key = fullKey, !.err = TRUE]
     /\ UNCHANGED <<memoryCache, pc, cs>>

\* the SETEX of a suspended getOrSet rejects: getOrSet ends with that error
\* after its producer ran
GosSetexFails(p) ==
  LET c == cs[p]
  IN /\ pc[p] = "gos_setex"
     /\ \E applied \in BOOLEAN :
          /\ redisDb' = IF applied
                        THEN RedisSetex(redisDb, c.key, c.ttl, JSONstringify(c.data), now)
                        ELSE redisDb
          /\ gCache' = IF applied
                       THEN [gCache EXCEPT ![c.key] =
                               [Written(@, "getOrSet", c.data, now + c.ttl * MsPerSecond)
                                  EXCEPT !.stale = c.invalidated]]
                       ELSE gCache
     /\ lastCache' = [NoCall EXCEPT !.op = "getOrSet", !.key = c.key, !.ttl = c.ttl,
                                    !.err = TRUE, !.calls = c.calls]
     /\ pc' = [pc EXCEPT ![p] = "idle"]
     /\ cs' = [cs EXCEPT ![p] = CsIdle]
     /\ UNCHANGED memoryCache

\* delPattern(pattern, keyPrefix): the in-memory path runs to its return, the
\* durable path up to the reply of KEYS
delPattern(p, pattern, keyPrefix) ==
  LET fullPattern == FullKey(keyPrefix, pattern)
      prefix == ReplaceStar(fullPattern)
      removed == {k \in DOMAIN memoryCache :
                    memoryCache[k] # NoCached /\ StartsWith(k, prefix)}
  IN /\ pc[p] = "idle"
     /\ getRedis
     /\ IF GetRedisValue # 0
        THEN /\ pc' = [pc EXCEPT ![p] = "dp_del"]
             /\ cs' = [cs EXCEPT ![p] =
                         [CsIdle EXCEPT !.durable = TRUE,
                                        !.keys = RedisKeys(redisDb, fullPattern, now)]]
             /\ UNCHANGED <<memoryCache, gCache, lastCache>>
        ELSE /\ memoryCache' = [k \in DOMAIN memoryCache |->
                                  IF k \in removed THEN NoCached ELSE memoryCache[k]]
             /\ gCache' = [k \in DOMAIN gCache |->
                             IF k \in removed THEN NoWrite ELSE gCache[k]]
             /\ lastCache' = [NoCall EXCEPT !.op = "delPattern"]
             /\ UNCHANGED <<pc, cs>>
     /\ UNCHANGED redisDb

\* clear(keyPrefix): the in-memory path runs to its return, the durable path
\* up to the reply of KEYS
clear(p, keyPrefix) ==
  LET removed == {k \in DOMAIN memoryCache :
                    memoryCache[k] # NoCached /\ StartsWith(k, keyPrefix \o Colon)}
  IN /\ pc[p] = "idle"
     /\ getRedis
     /\ IF GetRedisValue # 0
        THEN /\ pc' = [pc EXCEPT ![p] = "cl_del"]
             /\ cs' = [cs EXCEPT ![p] =
                         [CsIdle EXCEPT !.durable = TRUE,
                                        !.keys = RedisKeys(redisDb,
                                                           FullKey(keyPrefix, <<"*">>),
                                                           now)]]
             /\ UNCHANGED <<memoryCache, gCache, lastCache>>
        ELSE /\ memoryCache' = [k \in DOMAIN memoryCache |->
                                  IF k \in removed THEN NoCached ELSE memoryCache[k]]
             /\ gCache' = [k \in DOMAIN gCache |->
                             IF k \in removed THEN NoWrite ELSE gCache[k]]
             /\ lastCache' = [NoCall EXCEPT !.op = "clear"]
             /\ UNCHANGED <<pc, cs>>
     /\ UNCHANGED redisDb

\* the durable path of delPattern and clear after KEYS: DEL of the keys
\* found, when there are any, and return
DelKeys(p) ==
  LET keys == cs[p].keys
  IN /\ pc[p] \in {"dp_del", "cl_del"}
     /\ redisDb' = IF keys # {} THEN RedisDelKeys(redisDb, keys) ELSE redisDb
     /\ gCache' = [k \in DOMAIN gCache |-> IF k \in keys THEN NoWrite ELSE gCache[k]]
     /\ lastCache' = [NoCall EXCEPT !.op = IF pc[p] = "dp_del" THEN "delPattern"
                                           ELSE "clear"]
     /\ pc' = [pc EXCEPT ![p] = "idle"]
     /\ cs' = [cs EXCEPT ![p] = CsIdle]
     /\ UNCHANGED memoryCache

\* another client of the shared store writes a payload this program cannot decode
ForeignWrite(fullKey, text, ttl) ==
  /\ isRedisEnabled
  /\ redisDb' = RedisSetex(redisDb, fullKey, ttl, text, now)
  /\ gCache' = [gCache EXCEPT ![fullKey] =
                  [NoWrite EXCEPT !.by = "foreign", !.exp = now + ttl * MsPerSecond]]

\* History of the namespaces: per full key the keyPrefix and logical key of
\* the call that stored the present entry and the value each backend was given
\* for it; and the latest removal or write (operation, keyPrefix, key or
\* pattern) with the values get returned, and the owners, just before it.
NoOwner == [pre |-> <<>>, key |-> <<>>]

\* the operation carried out on both backends in turn: whose turn it is, the
\* operation, and what the call returned and how often it invoked its
\* producer on the durable (d) and on the in-memory (m) backend
NoOp == [op |-> "none", arg |-> <<>>]

NoEq == [phase |-> "ready", o |-> NoOp, dRet |-> Null, dCalls |-> 0,
         mRet |-> Null, mCalls |-> 0]

NoNs == [owner |-> [k \in CacheKeys |-> NoOwner],
         mem |-> [k \in CacheKeys |-> Null],
         dur |-> [k \in CacheKeys |-> Null],
         op |-> "none", pre |-> <<>>, arg |-> <<>>, durable |-> FALSE,
         done |-> FALSE, memCalls |-> 0, durCalls |-> 0,
         before |-> [k \in CacheKeys |-> Null],
         owners |-> [k \in CacheKeys |-> NoOwner],
         eq |-> NoEq]

\* a cache operation on (keyPrefix, arg) begins
NsBegin(g, op, keyPrefix, arg) ==
  [g EXCEPT !.op = op, !.pre = keyPrefix, !.arg = arg, !.durable = isRedisEnabled,
            !.done = FALSE,
            !.before = [k \in CacheKeys |-> GetValue(k)],
            !.owners = g.owner]

-----------------------------------------------------------------------------
(* Specifications *)

AllKeys == RlKeys \cup CacheKeys

\* the requests explored come from one caller behind a proxy
Requests == [headers : {ProxiedHeaders}, path : Paths]

InitCommon ==
  /\ redis = 0
  /\ handlesBuilt = 0
  /\ warnings = 0
  /\ now = 0
  /\ redisDb = [k \in AllKeys |-> NoKey]
  /\ memoryStore = [k \in RlKeys |-> NoEntry]
  /\ memoryCache = [k \in CacheKeys |-> NoCached]
  /\ pc = [p \in Procs |-> "idle"]
  /\ rl = [p \in Procs |-> RlIdle]
  /\ cs = [p \in Procs |-> CsIdle]
  /\ lastRl = NoResult
  /\ lastMw = NoResponse
  /\ lastCache = NoCall
  /\ gRl = [k \in RlKeys |-> NoHist]
  /\ gMw = [i \in MwIps |-> NoClasses]
  /\ gCache = [k \in CacheKeys |-> NoWrite]
  /\ lastSel = NoSel
  /\ gNs = NoNs

\* configurations with both credentials present: the flag selects the backend
BackendEnvs == {e \in Envs : e.URL /\ e.TOKEN}

DefaultPolicy == [limit |-> defaultLimits.reservation.limit,
                  windowInSeconds |-> defaultLimits.reservation.windowInSeconds]

selectorVars == <<redis, handlesBuilt, warnings, lastSel>>
rlVars == <<memoryStore, rl, lastRl, gRl>>
mwVars == <<lastMw, gMw>>
cacheVars == <<memoryCache, cs, lastCache, gCache, gNs>>

\* half a second passes; the round trip of a rateLimit pipeline (one HTTP
\* request) is shorter than that, so none is under way across a clock step
Tick ==
  /\ \A p \in Procs : pc[p] \notin {"rl_incr", "rl_expire"}
  /\ now + HalfSecond <= MaxTime
  /\ now' = now + HalfSecond
  /\ redisDb' = RedisPurge(redisDb, now')
  /\ UNCHANGED <<env, policy, runTtl, selectorVars, pc, rlVars, mwVars, cacheVars>>

(* Direct callers of rateLimit, any configuration, one policy per run *)

InitRL ==
  /\ InitCommon
  /\ env \in Envs
  /\ policy \in [limit : Limits, windowInSeconds : Windows]
  /\ runTtl = ttlPresets.medium

RlCall ==
  \E p \in Procs, identifier \in Idents :
    /\ CallsInWindow(FullKey(RlPrefix, identifier), policy.windowInSeconds) < MaxCalls
    /\ rateLimit(p, identifier,
                 [limit |-> policy.limit,
                  windowInSeconds |-> policy.windowInSeconds,
                  keyPrefix |-> RlPrefix], Direct)
    /\ UNCHANGED <<env, policy, runTtl, now, mwVars, cacheVars>>

RlIncr ==
  \E p \in Procs :
    /\ RlPipelineIncr(p)
    /\ UNCHANGED <<env, policy, runTtl, now, selectorVars, memoryStore, lastRl, mwVars,
                   cacheVars>>

RlReturn ==
  \E p \in Procs :
    /\ RlResume(p)
    /\ UNCHANGED <<env, policy, runTtl, now, selectorVars, memoryStore, memoryCache,
                   lastCache, gCache, gNs, gMw>>

NextRL == RlCall \/ RlIncr \/ RlReturn \/ Tick

SpecRL == InitRL /\ [][NextRL]_vars

(* Requests through the middleware, either backend *)

HalfWindow == (defaultLimits.api.windowInSeconds * MsPerSecond) \div 2

InitMW ==
  /\ InitCommon
  /\ env \in BackendEnvs
  /\ policy = DefaultPolicy
  /\ runTtl = ttlPresets.medium

\* requests arrive one at a time
MwRequest ==
  \E p \in Procs, request \in Requests :
    /\ \A q \in Procs : pc[q] = "idle"
    /\ middleware(p, request)
    /\ UNCHANGED <<env, policy, runTtl, now, memoryCache, lastCache, gCache, gNs>>

MwReturn ==
  \E p \in Procs :
    /\ MwResume(p)
    /\ UNCHANGED <<env, policy, runTtl, now, selectorVars, memoryStore, memoryCache,
                   lastCache, gCache, gNs, gMw>>

\* half a middleware window passes
TickMw ==
  /\ \A p \in Procs : pc[p] = "idle"
  /\ now + HalfWindow <= 2 * HalfWindow
  /\ now' = now + HalfWindow
  /\ redisDb' = RedisPurge(redisDb, now')
  /\ UNCHANGED <<env, policy, runTtl, selectorVars, pc, rlVars, mwVars, cacheVars>>

NextMW == MwRequest \/ RlIncr \/ MwReturn \/ TickMw

SpecMW == InitMW /\ [][NextMW]_vars

(* Requests of every header shape and path through the middleware, either
   backend, the clock standing still *)

ReqPaths == Paths \cup {PathAuthReservation}

AnyRequests == [headers : HeaderSets, path : ReqPaths]

\* requests under /api/ handled so far
Handled(i) == gMw[i].api + gMw[i].auth + gMw[i].reservation

RECURSIVE SumHandled(_)
SumHandled(ips) ==
  IF ips = {} THEN 0
  ELSE LET i == CHOOSE j \in ips : TRUE IN Handled(i) + SumHandled(ips \ {i})

\* requests arrive one at a time, MaxRequests of them under /api/
ReqRequest ==
  \E p \in Procs, request \in AnyRequests :
    /\ \A q \in Procs : pc[q] = "idle"
    /\ StartsWith(request.path, ApiPrefix) => SumHandled(MwIps) < MaxRequests
    /\ middleware(p, request)
    /\ UNCHANGED <<env, policy, runTtl, now, memoryCache, lastCache, gCache, gNs>>

NextReq == ReqRequest \/ RlIncr \/ MwReturn

SpecReq == InitMW /\ [][NextReq]_vars

(* Callers of the cache, either backend *)

InitCache ==
  /\ InitCommon
  /\ env \in BackendEnvs
  /\ policy = DefaultPolicy
  /\ runTtl \in Ttls

cacheFrame == <<env, policy, runTtl, now, rlVars, mwVars, gNs>>

CacheGet ==
  \E p \in Procs, key \in LogicalKeys, keyPrefix \in UsedPrefixes :
    get(p, key, keyPrefix) /\ UNCHANGED cacheFrame

CacheSet ==
  \E p \in Procs, key \in LogicalKeys, value \in Data, keyPrefix \in UsedPrefixes :
    set(p, key, value, runTtl, keyPrefix) /\ UNCHANGED cacheFrame

CacheDel ==
  \E p \in Procs, key \in LogicalKeys, keyPrefix \in UsedPrefixes :
    del(p, key, keyPrefix) /\ UNCHANGED cacheFrame

CacheGetOrSet ==
  \E p \in Procs, key \in LogicalKeys, keyPrefix \in UsedPrefixes :
    getOrSet(p, key, runTtl, keyPrefix) /\ UNCHANGED cacheFrame

CacheFetched ==
  \E p \in Procs, data \in Data :
    GosFetched(p, data) /\ UNCHANGED <<cacheFrame, selectorVars>>

CacheSetex ==
  \E p \in Procs :
    GosSetex(p) /\ UNCHANGED <<cacheFrame, selectorVars>>

CacheForeign ==
  \E fullKey \in {FullKey(pre, k) : pre \in UsedPrefixes, k \in LogicalKeys}, text \in Malformed :
    /\ ForeignWrite(fullKey, text, runTtl)
    /\ UNCHANGED <<cacheFrame, selectorVars, memoryCache, pc, cs, lastCache>>

NextCache ==
  \/ CacheGet \/ CacheSet \/ CacheDel \/ CacheGetOrSet \/ CacheFetched
  \/ CacheSetex \/ CacheForeign \/ Tick

SpecCache == InitCache /\ [][NextCache]_vars

(* Sequential callers that write and remove in two nested namespaces, either
   backend, the clock standing still *)

\* the callers of set, get, del and getOrSet: one logical key under both
\* namespaces, and a key of the outer namespace that begins like the inner one
NsPairs ==
  {[pre |-> pre, key |-> <<"1">>] : pre \in NsPrefixes}
    \cup {[pre |-> DefaultPrefix, key |-> <<"a", ":", "1">>]}

\* the entries of the callers of delPattern and clear
PatPairs ==
  {[pre |-> DefaultPrefix, key |-> k] : k \in NsLogicalKeys \ {<<"1">>}}
    \cup {[pre |-> DefaultPrefix \o Colon \o <<"a">>, key |-> <<"1">>]}

\* the value of those entries
PatValue == <<"v", "1">>

InitNs ==
  /\ InitCommon
  /\ env \in BackendEnvs
  /\ policy = DefaultPolicy
  /\ runTtl = ttlPresets.medium

nsFrame == <<env, policy, runTtl, now, rlVars, mwVars>>

AllIdle == \A q \in Procs : pc[q] = "idle"

\* the owners once the step is taken: those of the entries that are left, and
\* the writer of fullKey when the step stored it
OwnersAfter(fullKey, owner) ==
  [k \in CacheKeys |->
     IF ~LiveEntry(k)' THEN NoOwner
     ELSE IF k = fullKey THEN owner
     ELSE gNs.owner[k]]

NsGet ==
  \E p \in Procs, pair \in NsPairs :
    /\ AllIdle
    /\ get(p, pair.key, pair.pre)
    /\ UNCHANGED nsFrame
    /\ gNs' = [NsBegin(gNs, "get", pair.pre, pair.key) EXCEPT !.done = TRUE]

NsSet ==
  \E p \in Procs, pair \in NsPairs, value \in Data :
    /\ AllIdle
    /\ set(p, pair.key, value, runTtl, pair.pre)
    /\ UNCHANGED nsFrame
    /\ gNs' = [NsBegin(gNs, "set", pair.pre, pair.key) EXCEPT
                 !.done = TRUE,
                 !.owner = OwnersAfter(FullKey(pair.pre, pair.key), pair)]

NsDel ==
  \E p \in Procs, pair \in NsPairs :
    /\ AllIdle
    /\ del(p, pair.key, pair.pre)
    /\ UNCHANGED nsFrame
    /\ gNs' = [NsBegin(gNs, "del", pair.pre, pair.key) EXCEPT
                 !.done = TRUE, !.owner = OwnersAfter(<<>>, NoOwner)]

NsGetOrSet ==
  \E p \in Procs, pair \in {q \in NsPairs : q.key = <<"1">>} :
    /\ AllIdle
    /\ getOrSet(p, pair.key, runTtl, pair.pre)
    /\ UNCHANGED nsFrame
    /\ gNs' = [NsBegin(gNs, "getOrSet", pair.pre, pair.key) EXCEPT
                 !.done = (pc'[p] = "idle")]

NsFetched ==
  \E p \in Procs, data \in Data :
    /\ GosFetched(p, data)
    /\ UNCHANGED <<nsFrame, selectorVars>>
    /\ gNs' = IF pc'[p] = "idle"
              THEN [gNs EXCEPT !.done = TRUE,
                               !.owner = OwnersAfter(cs[p].key,
                                                     [pre |-> gNs.pre, key |-> gNs.arg])]
              ELSE gNs

NsSetex ==
  \E p \in Procs :
    /\ GosSetex(p)
    /\ UNCHANGED <<nsFrame, selectorVars>>
    /\ gNs' = [gNs EXCEPT !.done = TRUE,
                          !.owner = OwnersAfter(cs[p].key,
                                                [pre |-> gNs.pre, key |-> gNs.arg])]

NsFetchFailed ==
  \E p \in Procs :
    /\ GosFailed(p)
    /\ UNCHANGED <<nsFrame, selectorVars>>
    /\ gNs' = [gNs EXCEPT !.done = TRUE]

NsDelPattern ==
  \E p \in Procs, pattern \in NsPatterns :
    /\ AllIdle
    /\ delPattern(p, pattern, DefaultPrefix)
    /\ UNCHANGED nsFrame
    /\ gNs' = [NsBegin(gNs, "delPattern", DefaultPrefix, pattern) EXCEPT
                 !.done = (pc'[p] = "idle"), !.owner = OwnersAfter(<<>>, NoOwner)]

NsClear ==
  \E p \in Procs, keyPrefix \in NsPrefixes :
    /\ AllIdle
    /\ clear(p, keyPrefix)
    /\ UNCHANGED nsFrame
    /\ gNs' = [NsBegin(gNs, "clear", keyPrefix, <<>>) EXCEPT
                 !.done = (pc'[p] = "idle"), !.owner = OwnersAfter(<<>>, NoOwner)]

NsDelKeys ==
  \E p \in Procs :
    /\ DelKeys(p)
    /\ UNCHANGED <<nsFrame, selectorVars>>
    /\ gNs' = [gNs EXCEPT !.done = TRUE, !.owner = OwnersAfter(<<>>, NoOwner)]

NextNs ==
  NsGet \/ NsSet \/ NsDel \/ NsGetOrSet \/ NsFetched \/ NsSetex \/ NsFetchFailed

SpecNs == InitNs /\ [][NextNs]_vars

(* Sequential callers that remove by pattern and by namespace *)

PatGet ==
  \E p \in Procs, pair \in PatPairs :
    /\ AllIdle
    /\ get(p, pair.key, pair.pre)
    /\ UNCHANGED nsFrame
    /\ gNs' = [NsBegin(gNs, "get", pair.pre, pair.key) EXCEPT !.done = TRUE]

PatSet ==
  \E p \in Procs, pair \in PatPairs :
    /\ AllIdle
    /\ set(p, pair.key, PatValue, runTtl, pair.pre)
    /\ UNCHANGED nsFrame
    /\ gNs' = [NsBegin(gNs, "set", pair.pre, pair.key) EXCEPT
                 !.done = TRUE,
                 !.owner = OwnersAfter(FullKey(pair.pre, pair.key), pair)]

NextPat == PatGet \/ PatSet \/ NsDelPattern \/ NsClear \/ NsDelKeys

SpecPat == InitNs /\ [][NextPat]_vars

(* Sequential callers of the cache and of rateLimit in a process whose
   configuration is changed between calls, the clock standing still *)

selFrame == <<policy, runTtl, now, mwVars>>

\* the configuration the selector reads is switched to the other backend
SelEnv ==
  /\ env' = [env EXCEPT !.USE_REDIS = ~@]
  /\ UNCHANGED <<selFrame, selectorVars, redisDb, pc, rlVars, cacheVars>>

\* the history once fullKey was given value on the backend selected for the
\* operation under way
GivenTo(g, fullKey, value) ==
  IF g.durable THEN [g EXCEPT !.dur[fullKey] = value, !.done = TRUE]
  ELSE [g EXCEPT !.mem[fullKey] = value, !.done = TRUE]

SelGet ==
  \E p \in Procs, key \in LogicalKeys :
    /\ AllIdle
    /\ get(p, key, DefaultPrefix)
    /\ UNCHANGED <<env, selFrame, rlVars>>
    /\ gNs' = [NsBegin(gNs, "get", DefaultPrefix, key) EXCEPT !.done = TRUE]

SelSet ==
  \E p \in Procs, key \in LogicalKeys, value \in Data :
    /\ AllIdle
    /\ set(p, key, value, runTtl, DefaultPrefix)
    /\ UNCHANGED <<env, selFrame, rlVars>>
    /\ gNs' = GivenTo(NsBegin(gNs, "set", DefaultPrefix, key),
                      FullKey(DefaultPrefix, key), value)

SelDel ==
  \E p \in Procs, key \in LogicalKeys :
    /\ AllIdle
    /\ del(p, key, DefaultPrefix)
    /\ UNCHANGED <<env, selFrame, rlVars>>
    /\ gNs' = GivenTo(NsBegin(gNs, "del", DefaultPrefix, key),
                      FullKey(DefaultPrefix, key), Null)

SelGetOrSet ==
  \E p \in Procs, key \in LogicalKeys :
    /\ AllIdle
    /\ getOrSet(p, key, runTtl, DefaultPrefix)
    /\ UNCHANGED <<env, selFrame, rlVars>>
    /\ gNs' = [NsBegin(gNs, "getOrSet", DefaultPrefix, key) EXCEPT
                 !.done = (pc'[p] = "idle")]

SelFetched ==
  \E p \in Procs, data \in Data :
    /\ GosFetched(p, data)
    /\ UNCHANGED <<env, selFrame, rlVars, selectorVars>>
    /\ gNs' = IF pc'[p] = "idle" THEN GivenTo(gNs, cs[p].key, data) ELSE gNs

SelSetex ==
  \E p \in Procs :
    /\ GosSetex(p)
    /\ UNCHANGED <<env, selFrame, rlVars, selectorVars>>
    /\ gNs' = GivenTo(gNs, cs[p].key, cs[p].data)

SelRateLimit ==
  \E p \in Procs, identifier \in Idents :
    /\ AllIdle
    /\ gNs.memCalls + gNs.durCalls < MaxCalls
    /\ rateLimit(p, identifier,
                 [limit |-> policy.limit,
                  windowInSeconds |-> policy.windowInSeconds,
                  keyPrefix |-> RlPrefix], Direct)
    /\ UNCHANGED <<env, selFrame, memoryCache, cs, lastCache, gCache>>
    /\ gNs' = IF isRedisEnabled
              THEN [gNs EXCEPT !.op = "rateLimit", !.durCalls = @ + 1]
              ELSE [gNs EXCEPT !.op = "rateLimit", !.memCalls = @ + 1]

SelIncr ==
  \E p \in Procs :
    /\ RlPipelineIncr(p)
    /\ UNCHANGED <<env, selFrame, selectorVars, memoryStore, lastRl, cacheVars>>

SelReturn ==
  \E p \in Procs :
    /\ RlResume(p)
    /\ UNCHANGED <<env, policy, runTtl, now, selectorVars, memoryStore, memoryCache,
                   lastCache, gCache, gNs, gMw>>

NextSel ==
  \/ SelEnv \/ SelGet \/ SelSet \/ SelDel \/ SelGetOrSet \/ SelFetched \/ SelSetex
  \/ SelRateLimit \/ SelIncr \/ SelReturn

SpecSel == InitNs /\ [][NextSel]_vars

(* Sequential callers of the cache and requests through the middleware while
   durable commands may fail, the configuration changed between calls, the
   clock standing still *)

FailValue == <<"v", "1">>

FailRequest == [headers |-> ProxiedHeaders, path |-> PathReservation]

FailKey == FullKey(MwPrefix, getClientIp(FailRequest.headers))

FailSet ==
  \E p \in Procs, key \in LogicalKeys :
    /\ AllIdle
    /\ set(p, key, FailValue, runTtl, DefaultPrefix)
    /\ UNCHANGED <<env, selFrame, rlVars>>
    /\ gNs' = GivenTo(NsBegin(gNs, "set", DefaultPrefix, key),
                      FullKey(DefaultPrefix, key), FailValue)

FailGetOrSet ==
  \E p \in Procs, key \in LogicalKeys :
    /\ AllIdle
    /\ getOrSet(p, key, runTtl, DefaultPrefix)
    /\ UNCHANGED <<env, selFrame, rlVars>>
    /\ gNs' = [NsBegin(gNs, "getOrSet", DefaultPrefix, key) EXCEPT
                 !.done = (pc'[p] = "idle")]

FailFetched ==
  \E p \in Procs :
    /\ GosFetched(p, FailValue)
    /\ UNCHANGED <<env, selFrame, rlVars, selectorVars>>
    /\ gNs' = IF pc'[p] = "idle" THEN GivenTo(gNs, cs[p].key, FailValue) ELSE gNs

FailMwRequest ==
  \E p \in Procs :
    /\ AllIdle
    /\ gNs.memCalls + gNs.durCalls < MaxRequests
    /\ middleware(p, FailRequest)
    /\ UNCHANGED <<env, policy, runTtl, now, memoryCache, lastCache, gCache>>
    /\ gNs' = IF isRedisEnabled
              THEN [gNs EXCEPT !.op = "middleware", !.done = FALSE, !.durCalls = @ + 1]
              ELSE [gNs EXCEPT !.op = "middleware", !.done = TRUE, !.memCalls = @ + 1]

FailMwReturn ==
  \E p \in Procs :
    /\ MwResume(p)
    /\ UNCHANGED <<env, policy, runTtl, now, selectorVars, memoryStore, memoryCache,
                   lastCache, gCache, gMw>>
    /\ gNs' = [gNs EXCEPT !.done = TRUE]

\* a durable command of a cache call fails
FailCommand ==
  \E p \in Procs, op \in {"get", "set", "del", "getOrSet"}, key \in LogicalKeys :
    /\ AllIdle
    /\ CommandFails(p, op, key, FailValue, runTtl, DefaultPrefix)
    /\ UNCHANGED <<env, selFrame, rlVars>>
    /\ gNs' = [NsBegin(gNs, "failed", DefaultPrefix, key) EXCEPT !.done = TRUE]

FailSetex ==
  \E p \in Procs :
    /\ GosSetexFails(p)
    /\ UNCHANGED <<env, selFrame, rlVars, selectorVars>>
    /\ gNs' = [gNs EXCEPT !.op = "failed", !.done = TRUE]

\* the pipeline of the middleware's rateLimit call fails
FailPipeline ==
  \E p \in Procs :
    /\ MwThrows(p)
    /\ UNCHANGED <<env, policy, runTtl, now, selectorVars, memoryCache,
                   lastCache, gCache, gMw>>
    /\ gNs' = [gNs EXCEPT !.op = "failedPipeline", !.done = TRUE]

NextFail ==
  \/ SelEnv \/ FailSet \/ FailGetOrSet \/ FailFetched \/ FailMwRequest \/ SelIncr
  \/ FailMwReturn \/ FailCommand \/ FailSetex \/ FailPipeline

SpecFail == InitNs /\ [][NextFail]_vars

(* One sequence of cache operations carried out on both backends: each
   operation runs on the durable backend and then, at the same instant, on
   the in-memory backend *)

EqValue == <<"v", "1">>

\* the operations come from one caller
EqCallers == {1}

EqLogicalKeys == {<<"a", ":", "1">>, <<"a", "?", "1">>}

\* patterns with a single trailing wildcard
EqPatterns == {<<"a", ":", "*">>, <<"a", "?", "*">>}

EqOps ==
  [op : {"get", "set", "del", "getOrSet"}, arg : EqLogicalKeys]
    \cup [op : {"delPattern"}, arg : EqPatterns]
    \cup {[op |-> "clear", arg |-> <<>>]}

DurableEnv == [USE_REDIS |-> TRUE, URL |-> TRUE, TOKEN |-> TRUE]
MemoryEnv == [USE_REDIS |-> FALSE, URL |-> TRUE, TOKEN |-> TRUE]

InitEq ==
  /\ InitCommon
  /\ env = DurableEnv
  /\ policy = DefaultPolicy
  /\ runTtl \in Ttls

eqFrame == <<policy, runTtl, now, rlVars, mwVars>>

\* the call of operation o by p
EqStart(p, o) ==
  \/ o.op = "get" /\ get(p, o.arg, DefaultPrefix)
  \/ o.op = "set" /\ set(p, o.arg, EqValue, runTtl, DefaultPrefix)
  \/ o.op = "del" /\ del(p, o.arg, DefaultPrefix)
  \/ o.op = "getOrSet" /\ getOrSet(p, o.arg, runTtl, DefaultPrefix)
  \/ o.op = "delPattern" /\ delPattern(p, o.arg, DefaultPrefix)
  \/ o.op = "clear" /\ clear(p, DefaultPrefix)

\* an operation is called on the durable backend
EqFirst ==
  \E p \in EqCallers, o \in EqOps :
    /\ gNs.eq.phase = "ready"
    /\ AllIdle
    /\ EqStart(p, o)
    /\ UNCHANGED eqFrame
    /\ env' = IF pc'[p] = "idle" THEN MemoryEnv ELSE env
    /\ gNs' = [gNs EXCEPT !.eq =
                 IF pc'[p] = "idle"
                 THEN [NoEq EXCEPT !.phase = "memory", !.o = o,
                                   !.dRet = lastCache'.ret,
                                   !.dCalls = lastCache'.calls]
                 ELSE [NoEq EXCEPT !.phase = "durable", !.o = o]]

\* the producer of the durable call resolves
EqFirstFetched ==
  \E p \in EqCallers :
    /\ gNs.eq.phase = "durable"
    /\ GosFetched(p, EqValue)
    /\ UNCHANGED <<env, eqFrame, selectorVars, gNs>>

\* the durable call returns after its SETEX or DEL
EqFirstDone ==
  \E p \in EqCallers :
    /\ gNs.eq.phase = "durable"
    /\ GosSetex(p) \/ DelKeys(p)
    /\ UNCHANGED <<eqFrame, selectorVars>>
    /\ env' = MemoryEnv
    /\ gNs' = [gNs EXCEPT !.eq.phase = "memory",
                          !.eq.dRet = lastCache'.ret,
                          !.eq.dCalls = lastCache'.calls]

\* the same operation is called on the in-memory backend
EqSecond ==
  \E p \in EqCallers :
    /\ gNs.eq.phase = "memory"
    /\ AllIdle
    /\ EqStart(p, gNs.eq.o)
    /\ UNCHANGED eqFrame
    /\ env' = IF pc'[p] = "idle" THEN DurableEnv ELSE env
    /\ gNs' = IF pc'[p] = "idle"
              THEN [gNs EXCEPT !.eq.phase = "ready",
                               !.eq.mRet = lastCache'.ret,
                               !.eq.mCalls = lastCache'.calls]
              ELSE gNs

\* the producer of the in-memory call resolves and the call returns
EqSecondFetched ==
  \E p \in EqCallers :
    /\ gNs.eq.phase = "memory"
    /\ GosFetched(p, EqValue)
    /\ UNCHANGED <<eqFrame, selectorVars>>
    /\ env' = DurableEnv
    /\ gNs' = [gNs EXCEPT !.eq.phase = "ready",
                          !.eq.mRet = lastCache'.ret,
                          !.eq.mCalls = lastCache'.calls]

\* a second passes between two operations
EqTick ==
  /\ gNs.eq.phase = "ready"
  /\ now + MsPerSecond <= MaxTime
  /\ now' = now + MsPerSecond
  /\ redisDb' = RedisPurge(redisDb, now')
  /\ UNCHANGED <<env, policy, runTtl, selectorVars, pc, rlVars, mwVars, cacheVars>>

NextEq ==
  EqFirst \/ EqFirstFetched \/ EqFirstDone \/ EqSecond \/ EqSecondFetched \/ EqTick

SpecEq == InitEq /\ [][NextEq]_vars

-----------------------------------------------------------------------------
(* Rate limiter: properties *)

\* a rateLimit call for the key is suspended between its steps
InFlight(key) == \E q \in Procs : pc[q] # "idle" /\ rl[q].key = key

\* the count the selected backend holds for the key
StoredCount(key) ==
  IF isRedisEnabled
  THEN IF RedisLive(redisDb, key, now) THEN redisDb[key].val ELSE 0
  ELSE memoryStore[key].count

\* C1: for a fresh identifier, the k-th rateLimit call made inside one window
\* returns success = (k <= limit) and remaining = max(0, limit - k), on both
\* backends.
C1_Admission ==
  (lastRl.k > 0 /\ lastRl.fresh) =>
    /\ lastRl.success = (lastRl.k <= lastRl.limit)
    /\ lastRl.remaining = Max(0, lastRl.limit - lastRl.k)
    /\ lastRl.count = lastRl.k

\* call limit+1 of a fresh identifier in one window is the first one denied
C1_Witness ==
  /\ lastRl.fresh
  /\ lastRl.k = lastRl.limit + 1
  /\ ~lastRl.success
  /\ lastRl.remaining = 0
  /\ gRl[lastRl.key].adm = lastRl.limit

\* C2: the first call an identifier makes in a later window than its earlier
\* calls starts a fresh counter: success = true and remaining = limit - 1.
C2_WindowReset ==
  (lastRl.k = 1 /\ lastRl.later) =>
    /\ lastRl.success
    /\ lastRl.remaining = lastRl.limit - 1

\* C4: a denied call still counts: in a window no more than limit calls are
\* admitted, and the stored count after n calls in the window is n.
C4_DeniedCallsCount ==
  \A key \in RlKeys :
    gRl[key].win = WindowStart(now, policy.windowInSeconds) =>
      /\ gRl[key].adm <= policy.limit
      /\ StoredCount(key) = gRl[key].calls

\* C5: after a denial that reported reset = R and no further call until R
\* has passed, the next call is admitted.
C5_ResetIsWhenTheLimitResets == lastRl.afterReset => lastRl.success

\* C6: concurrent calls for one key in one window on a fresh counter observe
\* the distinct counts 1..N, and exactly min(N, limit) of them are admitted.
C6_ExactConcurrentAdmission ==
  \A key \in RlKeys :
    (gRl[key].win # -1 /\ gRl[key].fresh) =>
      /\ gRl[key].obs = [i \in 1..gRl[key].calls |-> i]
      /\ ~InFlight(key) => gRl[key].adm = Min(gRl[key].calls, policy.limit)

\* two calls are suspended after their INCR in the same window of a fresh key
C6_Witness ==
  /\ pc[1] = "rl_expire"
  /\ pc[2] = "rl_expire"
  /\ rl[1].key = rl[2].key
  /\ rl[1].win = rl[2].win
  /\ gRl[rl[1].key].fresh
  /\ {rl[1].count, rl[2].count} = {1, 2}

-----------------------------------------------------------------------------
(* Middleware: properties *)

\* C3: each endpoint class has its own quota per caller: while a caller has
\* made no more requests of a class in the window than that class allows, its
\* requests of the class are admitted, whatever it asked of other classes.
C3_QuotaPerClass ==
  (lastMw.cls \in {"auth", "reservation"} /\ lastMw.fresh) =>
    (lastMw.clsIndex <= defaultLimits[lastMw.cls].limit => lastMw.status # 429)

-----------------------------------------------------------------------------
(* Cache: properties *)

\* a getOrSet is suspended at its fetcher or at its SETEX
Fetching(p) == pc[p] \in {"gos_fetch", "gos_setex"}

\* what a key written at t0 with TTL T must read as: the value before t0 + T,
\* null from t0 + T on
Expected(fullKey) ==
  IF now < gCache[fullKey].exp THEN gCache[fullKey].val ELSE Null

\* C7: after set(K, v, {ttl: T, keyPrefix: P}) at t0 and no later write or
\* removal of that key, get(K, P) returns v at every time before t0 + T and
\* null at every time from t0 + T on, on both backends.
C7_TtlExpiry ==
  \A fullKey \in CacheKeys :
    gCache[fullKey].by = "set" => GetValue(fullKey) = Expected(fullKey)

\* at the instant t0 + T the in-memory entry is still in the map and get
\* returns null
C7_Witness ==
  \E fullKey \in CacheKeys :
    /\ ~isRedisEnabled
    /\ gCache[fullKey].by = "set"
    /\ now = gCache[fullKey].exp
    /\ memoryCache[fullKey] = [data |-> gCache[fullKey].val, expiry |-> now]
    /\ lastCache.op = "get"
    /\ lastCache.key = fullKey
    /\ lastCache.ret = Null

\* C8 as stated: a getOrSet started within T of the store of an earlier
\* getOrSet, with no del, delPattern or clear of K in between, returns the
\* value of that earlier call and does not invoke its producer.
C8_Original ==
  /\ (lastCache.op = "getOrSet" /\ lastCache.owedOrig) =>
       (lastCache.ret = lastCache.orig /\ lastCache.calls = 0)
  /\ \A p \in Procs : Fetching(p) => ~cs[p].owedOrig

\* C8 as amended: the same, when no other write of K (a set, the store of
\* another getOrSet, a foreign write) came in between either.
C8_HitAfterGetOrSet ==
  /\ (lastCache.op = "getOrSet" /\ lastCache.owed) =>
       (lastCache.ret = lastCache.prior /\ lastCache.calls = 0 /\ ~lastCache.stored)
  /\ \A p \in Procs : Fetching(p) => ~cs[p].owed

\* a getOrSet is served the value an earlier getOrSet stored
C8_Witness ==
  /\ lastCache.op = "getOrSet"
  /\ lastCache.owed
  /\ lastCache.ret \in Data
  /\ lastCache.ret = gCache[lastCache.key].val
  /\ lastCache.calls = 0
  /\ now > 0

\* C9: getOrSet called when K has no live entry invokes the producer exactly
\* once, stores the produced value under {keyPrefix}:K with the given TTL and
\* returns it; get then returns that value until the TTL has passed.
C9_GetOrSetMiss ==
  /\ (lastCache.op = "getOrSet" /\ lastCache.miss) =>
       (lastCache.calls = 1 /\ lastCache.stored /\ lastCache.ret \in Data)
  /\ \A p \in Procs : Fetching(p) => cs[p].calls = 1
  /\ (lastCache.op = "getOrSet" /\ lastCache.stored
        /\ gCache[lastCache.key].by = "getOrSet") =>
       /\ lastCache.ret = gCache[lastCache.key].val
       /\ lastCache.calls = 1
  /\ \A fullKey \in CacheKeys :
       gCache[fullKey].by = "getOrSet" => GetValue(fullKey) = Expected(fullKey)

\* a getOrSet that found an expired entry has stored and returned a value
\* that get still returns one clock step later
C9_Witness ==
  /\ lastCache.op = "getOrSet"
  /\ lastCache.miss
  /\ lastCache.stored
  /\ lastCache.calls = 1
  /\ gCache[lastCache.key].by = "getOrSet"
  /\ gCache[lastCache.key].gosExp = gCache[lastCache.key].exp
  /\ now > runTtl * MsPerSecond
  /\ now < gCache[lastCache.key].exp
  /\ GetValue(lastCache.key) = lastCache.ret

\* C10: on the durable backend an entry that does not decode makes get return
\* null without error, and makes getOrSet behave as on a miss: one producer
\* call, the entry overwritten with the produced value, that value returned,
\* no error.
C10_MalformedIsMiss ==
  /\ (lastCache.op = "get" /\ lastCache.malformed) =>
       (lastCache.ret = Null /\ ~lastCache.err)
  /\ (lastCache.op = "getOrSet" /\ lastCache.malformed) =>
       /\ lastCache.calls = 1
       /\ lastCache.stored
       /\ lastCache.ret \in Data
       /\ ~lastCache.err
  /\ \A fullKey \in CacheKeys :
       (isRedisEnabled /\ gCache[fullKey].by = "getOrSet"
          /\ RedisLive(redisDb, fullKey, now)) =>
         redisDb[fullKey].val = JSONstringify(gCache[fullKey].val)

\* a getOrSet that read an undecodable payload has replaced it
C10_Witness ==
  /\ isRedisEnabled
  /\ lastCache.op = "getOrSet"
  /\ lastCache.malformed
  /\ lastCache.calls = 1
  /\ redisDb[lastCache.key].val = JSONstringify(lastCache.ret)

\* the value held for the key by the selected backend, as it was given to set
\* or produced for getOrSet
StoredValue(fullKey) ==
  IF isRedisEnabled
  THEN JSONparse(redisDb[fullKey].val).value
  ELSE memoryCache[fullKey].data

\* C11: the lookup, the producer call and the store of getOrSet are separate
\* steps, so two concurrent calls on a key without live entry can both
\* observe a miss and both invoke their producer; in every interleaving a
\* call invokes its producer at most once, and the entry left in the store is
\* the value of the call whose store ran last.
C11_NoDeduplication ==
  /\ \A p \in Procs : cs[p].calls <= 1
  /\ lastCache.calls <= 1
  /\ \A fullKey \in CacheKeys :
       (gCache[fullKey].by = "getOrSet" /\ LiveEntry(fullKey)) =>
         StoredValue(fullKey) = gCache[fullKey].val

\* two getOrSet calls on one key have both observed a miss and both invoked
\* their producer; one of them is about to overwrite what the other stores
C11_Witness ==
  /\ \A p \in Procs : Fetching(p) /\ cs[p].miss /\ cs[p].calls = 1
  /\ cs[1].key = cs[2].key
  /\ pc[1] = "gos_setex"
  /\ pc[2] = "gos_setex"
  /\ cs[1].data # cs[2].data

-----------------------------------------------------------------------------
(* Namespaces: properties *)

\* C12: for a key K and two different keyPrefix values A and B, a value
\* written with set(K, v, {keyPrefix: A}) is never returned by get(K, B), and
\* set, del or getOrSet on K under A never changes what get(K, B) returns,
\* on both backends.
C12_NamespaceIsolation ==
  /\ \A A \in NsPrefixes, B \in NsPrefixes, K \in NsLogicalKeys :
       (A # B /\ GetValue(FullKey(B, K)) # Null) =>
         gNs.owner[FullKey(B, K)] # [pre |-> A, key |-> K]
  /\ (gNs.op = "get" /\ gNs.done) =>
       lastCache.ret = GetValue(FullKey(gNs.pre, gNs.arg))
  /\ gNs.op \in {"set", "del", "getOrSet"} =>
       \A B \in NsPrefixes \ {gNs.pre} :
         GetValue(FullKey(B, gNs.arg)) = gNs.before[FullKey(B, gNs.arg)]

\* the same key holds one value under one namespace and, just written,
\* another value under the other namespace
C12_Witness ==
  /\ gNs.op = "set"
  /\ gNs.done
  /\ gNs.pre # DefaultPrefix
  /\ GetValue(FullKey(gNs.pre, gNs.arg)) = <<"v", "1">>
  /\ GetValue(FullKey(DefaultPrefix, gNs.arg)) = <<"v", "2">>
  /\ gNs.before[FullKey(DefaultPrefix, gNs.arg)] = <<"v", "2">>

\* the literal part of a pattern with a single trailing wildcard
Literal(pattern) == SubSeq(pattern, 1, Len(pattern) - 1)

\* C13: delPattern("P*", keyPrefix) removes every entry under keyPrefix whose
\* logical key starts with the literal P and leaves every other entry
\* unchanged, on both backends.
C13_PatternDelete ==
  (gNs.op = "delPattern" /\ gNs.done /\ gNs.arg[Len(gNs.arg)] = "*") =>
    \A fullKey \in CacheKeys :
      IF StartsWith(fullKey, FullKey(gNs.pre, Literal(gNs.arg)))
      THEN GetValue(fullKey) = Null
      ELSE GetValue(fullKey) = gNs.before[fullKey]

\* C14: clear(P) removes every entry that was stored under keyPrefix P and
\* leaves unchanged every entry that was stored under another keyPrefix, on
\* both backends; after clear(P), get(K, P) returns null for every K.
C14_ClearNamespace ==
  (gNs.op = "clear" /\ gNs.done) =>
    /\ \A fullKey \in CacheKeys :
         gNs.owners[fullKey].pre = gNs.pre => GetValue(fullKey) = Null
    /\ \A fullKey \in CacheKeys :
         (gNs.owners[fullKey] # NoOwner /\ gNs.owners[fullKey].pre # gNs.pre) =>
           GetValue(fullKey) = gNs.before[fullKey]
    /\ \A K \in NsLogicalKeys : GetValue(FullKey(gNs.pre, K)) = Null

\* C15: del(K, P) removes exactly the entry {P}:{K}: no error when the entry
\* is absent, a second del leaves the state of the first, every other entry
\* is unchanged and get(K, P) returns null afterwards, on both backends.
C15_DelExact ==
  gNs.op = "del" =>
    LET target == FullKey(gNs.pre, gNs.arg)
    IN /\ lastCache.op = "del"
       /\ ~lastCache.err
       /\ GetValue(target) = Null
       /\ ~LiveEntry(target)
       /\ \A fullKey \in CacheKeys \ {target} :
            /\ GetValue(fullKey) = gNs.before[fullKey]
            /\ gNs.owner[fullKey] = gNs.owners[fullKey]
       /\ gNs.before[target] = Null =>
            \A fullKey \in CacheKeys : GetValue(fullKey) = gNs.before[fullKey]

\* del of an absent entry has returned and the entry of the other namespace
\* is still there
C15_Witness ==
  /\ gNs.op = "del"
  /\ gNs.before[FullKey(gNs.pre, gNs.arg)] = Null
  /\ gNs.owners[FullKey(gNs.pre, gNs.arg)] = NoOwner
  /\ \E B \in NsPrefixes \ {gNs.pre} : GetValue(FullKey(B, gNs.arg)) \in Data
  /\ ~lastCache.err

-----------------------------------------------------------------------------
(* Backend selector: properties *)

\* the keys of the callers whose configuration changes between calls
SelKeys == {FullKey(DefaultPrefix, k) : k \in LogicalKeys}

\* the counter the in-memory store holds for the key, 0 when it has none
MemoryCount(key) == memoryStore[key].count

\* the counter the durable store holds for the key, 0 when it has none
DurableCount(key) == IF RedisLive(redisDb, key, now) THEN redisDb[key].val ELSE 0

\* C16: the backend is selected afresh on every cache and rate-limit call
\* and the two backends share no entry: what a read returns while one backend
\* is selected is what was written while that backend was selected, and a
\* miss on it is not satisfied from the other.
C16_BackendsDisjoint ==
  /\ \A fullKey \in SelKeys :
       /\ DurableGet(RedisGet(redisDb, fullKey, now)).value = gNs.dur[fullKey]
       /\ MemoryLookup(memoryCache, fullKey, now).value = gNs.mem[fullKey]
  /\ (gNs.op = "get" /\ gNs.done) =>
       lastCache.ret = IF gNs.durable
                       THEN gNs.dur[FullKey(gNs.pre, gNs.arg)]
                       ELSE gNs.mem[FullKey(gNs.pre, gNs.arg)]
  /\ (gNs.op = "getOrSet" /\ gNs.done /\ ~lastCache.stored) =>
       lastCache.ret = IF gNs.durable
                       THEN gNs.dur[FullKey(gNs.pre, gNs.arg)]
                       ELSE gNs.mem[FullKey(gNs.pre, gNs.arg)]
  /\ \A identifier \in Idents :
       /\ MemoryCount(FullKey(RlPrefix, identifier)) = gNs.memCalls
       /\ DurableCount(FullKey(RlPrefix, identifier))
            = gNs.durCalls - Cardinality({p \in Procs : pc[p] = "rl_incr"})

\* a read with the durable backend selected has missed although the
\* in-memory backend, selected before, holds a live entry for the key
C16_Witness ==
  /\ gNs.op = "get"
  /\ gNs.done
  /\ gNs.durable
  /\ lastCache.ret = Null
  /\ gNs.mem[FullKey(gNs.pre, gNs.arg)] \in Data
  /\ redis # 0

\* C17: getRedis() returns a handle if and only if USE_REDIS is true and
\* both credentials are set; with USE_REDIS false it returns null whatever
\* the credentials; isRedisEnabled() is true exactly when getRedis() returns
\* a handle.
C17_SelectorContract ==
  lastSel.called =>
    /\ (lastSel.ret # 0)
         = (lastSel.env.USE_REDIS /\ lastSel.env.URL /\ lastSel.env.TOKEN)
    /\ ~lastSel.env.USE_REDIS => lastSel.ret = 0
    /\ lastSel.enabled = (lastSel.ret # 0)

\* both credentials are set, the flag is off, and getRedis has returned null
C17_Witness ==
  /\ lastSel.called
  /\ ~lastSel.env.USE_REDIS
  /\ lastSel.env.URL
  /\ lastSel.env.TOKEN
  /\ lastSel.ret = 0
  /\ ~lastSel.enabled
  /\ lastRl.success

\* C18: with the durable backend enabled and a credential missing, the
\* warning is logged at most once per process however many operations call
\* the selector, and every such call returns null.
C18_WarnsOnce ==
  /\ warnings <= 1
  /\ (lastSel.called /\ GetRedisWarns) => lastSel.ret = 0

\* C19: across the getRedis() calls of a process at most one handle is
\* constructed and every non-null value returned is that handle.
C19_Singleton ==
  /\ handlesBuilt <= 1
  /\ redis \in {0, 1}
  /\ (lastSel.called /\ lastSel.ret # 0) => (lastSel.ret = 1 /\ redis = 1)

\* the handle built by an earlier durable call is returned again after the
\* configuration was switched to the in-memory backend and back
C19_Witness ==
  /\ handlesBuilt = 1
  /\ lastSel.ret = 1
  /\ gNs.op = "get"
  /\ gNs.durable
  /\ \E fullKey \in SelKeys : gNs.dur[fullKey] \in Data /\ gNs.mem[fullKey] \in Data
  /\ gNs.memCalls > 0

-----------------------------------------------------------------------------
(* Middleware: responses *)

\* the number a header value denotes, -1 when it is not a decimal numeral
RECURSIVE Number(_)
Number(text) ==
  LET digits == <<"0", "1", "2", "3", "4", "5", "6", "7", "8", "9">>
      last == text[Len(text)]
      rest == SubSeq(text, 1, Len(text) - 1)
  IN IF text = <<>> \/ ~\E d \in 1..10 : digits[d] = last THEN -1
     ELSE IF rest = <<>> THEN (CHOOSE d \in 1..10 : digits[d] = last) - 1
     ELSE IF Number(rest) = -1 THEN -1
     ELSE Number(rest) * 10 + (CHOOSE d \in 1..10 : digits[d] = last) - 1

\* C20: for a request under /api/ the middleware answers 429 with a JSON
\* body {error: message} exactly when rateLimit returned success = false and
\* otherwise lets the request proceed; either response carries
\* X-RateLimit-Limit, -Remaining and -Reset equal to the result's limit,
\* remaining and reset.
C20_Responses ==
  lastMw.cls # "none" =>
    /\ (lastMw.status = 429) = ~lastRl.success
    /\ lastMw.status = 429 => (lastMw.kind = "json" /\ lastMw.error = TooManyRequests)
    /\ lastMw.status # 429 => (lastMw.kind = "next" /\ lastMw.error = "")
    /\ Number(lastMw.limit) = lastRl.limit
    /\ Number(lastMw.remaining) = lastRl.remaining
    /\ Number(lastMw.resetHeader) = lastRl.reset

\* a request to an auth path is answered 429 with the headers 10, 0 and the
\* end of the window
C20_Witness ==
  /\ lastMw.cls = "auth"
  /\ lastMw.status = 429
  /\ lastMw.kind = "json"
  /\ lastMw.limit = <<"1", "0">>
  /\ lastMw.remaining = <<"0">>
  /\ Number(lastMw.resetHeader) * MsPerSecond > now
  /\ ~lastRl.success

-----------------------------------------------------------------------------
(* Middleware: the policy and the caller of a request *)

\* C21: the policy of a request under /api/ follows ordered substring rules:
\* a path containing /api/auth gets auth (10 per 60 s) even if it also
\* contains /reservation, otherwise a path containing /reservation gets
\* reservation (5 per 60 s), otherwise api (100 per 60 s); /api/auth/login
\* selects auth, /api/cars/reservation reservation and /api/cars api.
C21_PolicyOfPath ==
  lastMw.cls # "none" =>
    LET path == lastMw.request.path
        expected == IF Includes(path, ApiAuth) THEN "auth"
                    ELSE IF Includes(path, SlashReservation) THEN "reservation"
                    ELSE "api"
        perWindow == [auth |-> 10, reservation |-> 5, api |-> 100]
    IN /\ lastMw.cls = expected
       /\ lastRl.limit = perWindow[expected]
       /\ Number(lastMw.limit) = perWindow[expected]
       /\ lastRl.reset = WindowStart(now, 60) + 60
       /\ path = PathAuthLogin => lastMw.cls = "auth"
       /\ path = PathReservation => lastMw.cls = "reservation"
       /\ path = PathApiCars => lastMw.cls = "api"

\* a request to /api/auth/reservation was answered under the auth policy
C21_Witness ==
  /\ lastMw.request.path = PathAuthReservation
  /\ lastMw.cls = "auth"
  /\ lastMw.limit = <<"1", "0">>

\* the caller the claim's rule names, a header counting as present when
\* present(h) holds
CallerOf(headers, present(_)) ==
  IF present(headers.xff) THEN Trim(FirstField(headers.xff))
  ELSE IF present(headers.realIp) THEN headers.realIp
  ELSE IF present(headers.cf) THEN headers.cf
  ELSE Unknown

Carried(h) == h # NoHeader

\* C22 as stated: the caller is the first comma-separated entry of
\* X-Forwarded-For, trimmed, when the request carries that header, otherwise
\* X-Real-IP when carried, otherwise CF-Connecting-IP when carried, otherwise
\* "unknown".
C22_Original ==
  lastMw.cls # "none" => lastMw.ip = CallerOf(lastMw.request.headers, Carried)

\* C22: the caller is the first comma-separated entry of X-Forwarded-For,
\* trimmed, when that header is carried with a non-empty value, otherwise
\* X-Real-IP when non-empty, otherwise CF-Connecting-IP when non-empty,
\* otherwise "unknown"; "4, 8" yields "4" and a request with none of the
\* three headers yields "unknown".
C22_ClientIp ==
  lastMw.cls # "none" =>
    /\ lastMw.ip = CallerOf(lastMw.request.headers, Truthy)
    /\ lastMw.request.headers = ProxiedHeaders => lastMw.ip = <<"4">>
    /\ (\A h \in {"xff", "realIp", "cf"} : lastMw.request.headers[h] = NoHeader)
         => lastMw.ip = Unknown

\* a request with "4, 8" in X-Forwarded-For and an X-Real-IP was counted
\* for the caller "4"
C22_Witness ==
  /\ lastMw.cls # "none"
  /\ lastMw.request.headers = ProxiedHeaders
  /\ lastMw.ip = <<"4">>
  /\ lastRl.key = FullKey(MwPrefix, <<"4">>)

-----------------------------------------------------------------------------
(* Middleware: paths outside /api/ *)

\* C30: a request whose path does not start with /api/ passes through
\* without a call of the rate limiter: no counter is created or incremented
\* on either backend, the answer is not a 429, and every caller's counter,
\* hence its remaining quota, is as before.
C30_PassThrough ==
  [][(/\ lastMw' # lastMw
      /\ SubSeq(lastMw'.request.path, 1, 5) # <<"/", "a", "p", "i", "/">>)
     => /\ lastMw'.kind = "next"
        /\ lastMw'.status # 429
        /\ UNCHANGED <<memoryStore, redisDb, pc, rl, lastRl, gRl, gMw,
                       redis, handlesBuilt, warnings, lastSel>>]_vars

\* a request to /cars passed through while its caller had used up the
\* reservation quota
C30_Witness ==
  /\ lastMw.request.path = PathHome
  /\ lastMw.kind = "next"
  /\ lastMw.cls = "none"
  /\ ~lastRl.success
  /\ lastRl.key = FullKey(MwPrefix, getClientIp(lastMw.request.headers))
  /\ \/ memoryStore[lastRl.key].count > lastRl.limit
     \/ (redisDb[lastRl.key] # NoKey /\ redisDb[lastRl.key].val > lastRl.limit)

-----------------------------------------------------------------------------
(* Rate limiter: the end of a window on the in-memory store *)

\* C24: on the in-memory store a window is [windowStart, windowStart + W): a
\* call made at exactly the stored reset time of its key belongs to the next
\* window, so it starts a fresh counter with count = 1 and is admitted.
C24_BoundaryFresh ==
  [][\A k \in RlKeys :
       (/\ memoryStore'[k] # memoryStore[k]
        /\ memoryStore[k] # NoEntry
        /\ memoryStore[k].reset = now)
       => /\ memoryStore'[k].count = 1
          /\ lastRl'.key = k
          /\ lastRl'.count = 1
          /\ lastRl'.success]_vars

-----------------------------------------------------------------------------
(* Cache: the sweep of the in-memory map *)

\* a step in which get returns or getOrSet looks up its key
ReadStep ==
  \/ lastCache' # lastCache /\ lastCache'.op = "get"
  \/ lastCache' # lastCache /\ lastCache'.op = "getOrSet" /\ ~lastCache'.stored
  \/ \E p \in Procs : pc[p] = "idle" /\ pc'[p] = "gos_fetch"

\* C28: on the in-memory backend the sweep runs before every read: right
\* after the lookup of a get or a getOrSet the map holds no entry whose
\* expiry is earlier than the current time.
C28_SweepBeforeRead ==
  [][(~isRedisEnabled /\ ReadStep) =>
       \A k \in CacheKeys :
         memoryCache'[k] # NoCached => memoryCache'[k].expiry >= now]_vars

-----------------------------------------------------------------------------
(* Cache: removal by a pattern without wildcard *)

\* C27: for a pattern P that holds no wildcard, delPattern(P, keyPrefix)
\* removes only the entry whose full key is {keyPrefix}:P and leaves the
\* entries whose keys merely start with that string unchanged, on the
\* in-memory backend as on the durable one.
C27_ExactMatch ==
  (/\ gNs.op = "delPattern"
   /\ gNs.done
   /\ \A i \in 1..Len(gNs.arg) : gNs.arg[i] \notin {"*", "?"}) =>
    \A fullKey \in CacheKeys :
      IF fullKey = FullKey(gNs.pre, gNs.arg)
      THEN GetValue(fullKey) = Null
      ELSE GetValue(fullKey) = gNs.before[fullKey]

-----------------------------------------------------------------------------
(* Cache: invalidation and calls in flight *)

\* C23: once del(K) has completed, get(K) returns null until a set or a
\* getOrSet started after the del stores a value: a getOrSet that observed
\* its miss and began its producer before the del does not bring K back
\* with the value it fetched.
C23_DelEffective ==
  \A fullKey \in CacheKeys :
    gCache[fullKey].stale => GetValue(fullKey) = Null

-----------------------------------------------------------------------------
(* Cache: a producer that fails *)

\* the latest cache call was a getOrSet whose producer failed
ProducerFailed(call) ==
  call.op = "getOrSet" /\ call.err /\ call.calls = 1 /\ ~call.stored

\* what get returns for fullKey when the stores are db and cache
ValueIn(db, cache, fullKey) ==
  IF isRedisEnabled
  THEN DurableGet(RedisGet(db, fullKey, now)).value
  ELSE MemoryLookup(cache, fullKey, now).value

\* C26: when the producer fails during getOrSet(K, producer), getOrSet ends
\* with that failure and stores nothing on either backend: every entry reads
\* as before the call and K has no live entry, a following get(K) returns
\* null and a following getOrSet(K, producer2) invokes producer2.
C26_ProducerFails ==
  [][/\ (/\ ProducerFailed(lastCache')
         /\ \E q \in Procs : pc[q] = "gos_fetch" /\ pc'[q] = "idle") =>
          /\ \A q \in Procs : pc'[q] = "idle"
          /\ ValueIn(redisDb', memoryCache', lastCache'.key) = Null
          /\ \A k \in CacheKeys : ValueIn(redisDb', memoryCache', k) = gNs'.before[k]
     /\ (ProducerFailed(lastCache) /\ AllIdle) =>
          /\ (lastCache'.op = "get" /\ lastCache'.key = lastCache.key)
               => lastCache'.ret = Null
          /\ (gNs'.op = "getOrSet" /\ FullKey(gNs'.pre, gNs'.arg) = lastCache.key
              /\ ~gNs'.done)
               => \E q \in Procs : /\ pc'[q] = "gos_fetch"
                                   /\ cs'[q].key = lastCache.key
                                   /\ cs'[q].calls = 1
          /\ (gNs'.op = "getOrSet" /\ FullKey(gNs'.pre, gNs'.arg) = lastCache.key)
               => ~gNs'.done]_vars

\* a getOrSet has ended with its producer's failure while another key holds
\* an entry, and its own key holds none
C26_Witness ==
  /\ ProducerFailed(lastCache)
  /\ gNs.op = "getOrSet"
  /\ gNs.done
  /\ GetValue(lastCache.key) = Null
  /\ \E k \in CacheKeys : GetValue(k) # Null
  /\ \A q \in Procs : pc[q] = "idle"

-----------------------------------------------------------------------------
(* Failures of the durable backend *)

\* C25: when a durable command fails during a cache or rate-limit call, the
\* call ends with that error at the first failure (no command is sent again,
\* the caller is idle with the error), nothing is read from or written to
\* the in-memory cache map and counter map, which hold what the calls made
\* with the in-memory backend selected left in them, and a middleware
\* request whose rateLimit call failed is answered neither by an admission
\* nor by a 429.
C25_DurableFailure ==
  /\ \A fullKey \in SelKeys :
       MemoryLookup(memoryCache, fullKey, now).value = gNs.mem[fullKey]
  /\ MemoryCount(FailKey) = gNs.memCalls
  /\ gNs.op = "failed" =>
       /\ AllIdle
       /\ lastCache.err
       /\ lastCache.ret = Null
       /\ ~lastCache.stored
       /\ gNs.durable
  /\ gNs.op = "failedPipeline" =>
       /\ AllIdle
       /\ lastRl.threw
       /\ ~lastRl.success
       /\ lastMw.kind \notin {"next", "json"}
       /\ lastMw.status \notin {200, 429}
       /\ lastMw.request = FailRequest

\* the pipeline of a request's rateLimit call has failed while the in-memory
\* maps hold a counter and a cache entry left by earlier calls
C25_Witness ==
  /\ gNs.op = "failedPipeline"
  /\ lastRl.threw
  /\ lastMw.kind = "throw"
  /\ MemoryCount(FailKey) > 0
  /\ \E fullKey \in SelKeys : memoryCache[fullKey] # NoCached
  /\ lastCache.err
  /\ isRedisEnabled

-----------------------------------------------------------------------------
(* Cache: the two backends compared *)

\* C29: the two cache backends are observationally equivalent: for any
\* sequence of set (ttl > 0), get, del, clear, getOrSet and delPattern with
\* a single trailing wildcard carried out at the same times on the durable
\* and on the in-memory backend, every get and getOrSet returns the same
\* value and invokes the producer the same number of times on both.
C29_BackendsEquivalent ==
  (gNs.eq.phase = "ready" /\ gNs.eq.o.op \in {"get", "getOrSet"}) =>
    /\ gNs.eq.dRet = gNs.eq.mRet
    /\ gNs.eq.dCalls = gNs.eq.mCalls

=============================================================================
